---- MODULE Spec2Model ----
(***************************************************************************)
(* Rosetta worker (src/worker/index.js): the edge request pipeline.        *)
(* Requests run concurrently; every `await` of a handler is a step         *)
(* boundary.  The key-value store (env.ROSETTA_CACHE) is the only shared   *)
(* state: md:<fingerprint> and pending:<fingerprint>.  All requests of the *)
(* model that pass validation target the same canonical URL, hence the     *)
(* same fingerprint.                                                       *)
(***************************************************************************)
EXTENDS Integers, Sequences, FiniteSets, TLC

\* ---------------------------------------------------------------- bounds
NumReqs == 2

\* ------------------------------------------------------ program constants
PollAttempts == 6

Reqs == 1..NumReqs

\* ------------------------------------------------------------- contents
\* A stored or returned body is a sequence of lexical tokens.  Absent
\* (null, or the empty string: both falsy in the source) is <<>>.
Absent == <<>>
NoMarker == 0

MdA == <<"# a">>
MdB == <<"# b">>
HtmlDoc == <<"<!doctype", "body">>
BomHtml == <<"BOM", "WS", "<html", "body">>
CommentHtml == <<"<!--", "<html", "body">>
OriginHtml == <<"<html", "origin">>
Placeholder == <<"<!--", "Rosetta: Origin unavailable">>

RECURSIVE trim(_)
trim(s) ==
    IF s # <<>> /\ Head(s) = "WS" THEN trim(Tail(s)) ELSE s

stripBom(s) ==
    IF s # <<>> /\ Head(s) = "BOM" THEN Tail(s) ELSE s

includes(s, tok) == \E i \in 1..Len(s) : s[i] = tok

isHTML(content) ==
    IF content = Absent THEN FALSE
    ELSE LET trimmed == trim(stripBom(content))
         IN  /\ trimmed # <<>>
             /\ \/ Head(trimmed) \in {"<!doctype", "<html", "<?xml"}
                \/ (Head(trimmed) = "<!--" /\ includes(trimmed, "<html"))

\* `cached && !isHTML(cached)`
usable(content) == content # Absent /\ ~isHTML(content)

\* ------------------------------------------------------------- responses
\* status, X-Rosetta-Status, body, X-Rosetta-Origin-Status; cause names the
\* exception behind a response the handler did not build itself
Resp(st, rs, b, os) ==
    [status |-> st, rosetta |-> rs, body |-> b, origin |-> os, cause |-> "-"]
NoResp == Resp(0, "-", Absent, "-")

jsonResponse(st) == Resp(st, "-", Absent, "-")

\* An exception that leaves handleProxyMode: the top-level fetch has no
\* catch, the runtime answers with an error page.
Uncaught(why) ==
    [status |-> 500, rosetta |-> "-", body |-> Absent, origin |-> "-",
     cause |-> why]

OriginStatuses == {200, 503}

\* ---------------------------------------------------------- request inputs
Tokens == {"tokHashed", "tokLegacy", "tokBoth", "tokUnknown"}
HashedStore == {"tokHashed", "tokBoth"}
LegacyStore == {"tokLegacy", "tokBoth"}
CustomerDomains == {"example.com", "localhost"}

\* target url of GET /render: [kind, scheme, host]
Targets ==
    { [kind |-> "missing", scheme |-> "-", host |-> "-"],
      [kind |-> "garbage", scheme |-> "-", host |-> "-"],
      [kind |-> "url", scheme |-> "http:", host |-> "example.com"],
      [kind |-> "url", scheme |-> "https:", host |-> "notallowed.example"],
      [kind |-> "url", scheme |-> "https:", host |-> "localhost"],
      [kind |-> "url", scheme |-> "https:", host |-> "127.0.0.1"],
      [kind |-> "url", scheme |-> "http:", host |-> "127.0.0.1"],
      [kind |-> "url", scheme |-> "https:", host |-> "www.example.com"] }

stripWww(host) == IF host = "www.example.com" THEN "example.com" ELSE host

isPrivateHost(hostname) == hostname \in {"localhost", "127.0.0.1"}

\* User-Agent, lowercased, named by the identity substring it contains;
\* "absent" is the missing header.
UserAgents == {"absent", "chrome", "gptbot", "twitterbot"}
AI_BOTS == {"gptbot", "claudebot"}

isAIBot(ua) == ua # "absent" /\ ua \in AI_BOTS

\* URLs are token sequences: <<scheme, authority tokens, "/", path tokens>>.
\* url.pathname of the inbound request always starts with "/".
Paths ==
    { <<"/", "page">>, <<"/", "app.js">>, <<"/", "admin">>,
      <<"/", "/", "evil.example", "/", "x">>, <<"/", "@", "evil.example">> }

\* IGNORE_EXT.some(ext => pathname.endsWith(ext))
isAsset(path) == path[Len(path)] \in {"app.js"}
\* BLACKLIST.some(pattern => new RegExp(pattern).test(pathname)), '^/admin'
isBlacklisted(path) == Len(path) >= 2 /\ path[1] = "/" /\ path[2] \in {"admin"}

AllowedOrigin == <<"https://", "rossetto-demo.vercel.app">>
ALLOWED_PROXY_ORIGINS == {AllowedOrigin}

\* the ?target= parameter; Absent when the parameter is missing or empty
TargetParams ==
    { Absent,
      AllowedOrigin,
      AllowedOrigin \o <<"/", "x">>,
      <<"https://", "evil.example">>,
      <<"https://", "rossetto-demo.vercel.app", "@", "evil.example">>,
      <<"https://", "rossetto-demo.vercel.app", ".evil.example">>,
      <<"http://", "rossetto-demo.vercel.app">>,
      <<"not a url">> }

\* least and greatest index of tok in s[from..to], 0 when there is none
firstIndex(s, tok, from, to) ==
    LET hits == {i \in from..to : s[i] = tok}
    IN  IF hits = {} THEN 0 ELSE CHOOSE i \in hits : \A j \in hits : i <= j
lastIndex(s, tok, from, to) ==
    LET hits == {i \in from..to : s[i] = tok}
    IN  IF hits = {} THEN 0 ELSE CHOOSE i \in hits : \A j \in hits : i >= j

InvalidURL == [ok |-> FALSE, origin |-> <<>>, pathname |-> <<>>]

\* new URL(s): the authority ends at the first "/", the host follows the
\* last "@" of the authority, the origin is scheme and host
parseURL(s) ==
    IF Len(s) < 2 \/ s[1] \notin {"https://", "http://"} THEN InvalidURL
    ELSE LET slash == firstIndex(s, "/", 2, Len(s))
             endAuth == IF slash = 0 THEN Len(s) ELSE slash - 1
             at == lastIndex(s, "@", 2, endAuth)
             hostFrom == IF at = 0 THEN 2 ELSE at + 1
         IN  IF hostFrom > endAuth THEN InvalidURL
             ELSE [ok |-> TRUE,
                   origin |-> <<s[1]>> \o SubSeq(s, hostFrom, endAuth),
                   pathname |-> IF slash = 0 THEN <<"/">>
                                             ELSE SubSeq(s, slash, Len(s))]

\* handleProxyMode "Determine target origin": the status of the check and
\* the origin the request will be sent to
targetOrigin(targetParam) ==
    IF targetParam = Absent THEN [status |-> 200, origin |-> AllowedOrigin]
    ELSE LET parsedTarget == parseURL(targetParam)
         IN  IF ~parsedTarget.ok THEN [status |-> 400, origin |-> <<>>]
             ELSE IF parsedTarget.origin \in ALLOWED_PROXY_ORIGINS
             THEN [status |-> 200, origin |-> parsedTarget.origin]
             ELSE [status |-> 403, origin |-> <<>>]

\* variant: the path is resolved against the origin, new URL(path, origin),
\* where a path starting with "//" names another host
proxyTargetUrl_Resolved(origin, pathname) ==
    IF Len(pathname) >= 2 /\ pathname[1] = "/" /\ pathname[2] = "/"
    THEN parseURL(<<origin[1]>> \o SubSeq(pathname, 3, Len(pathname)))
    ELSE parseURL(origin \o pathname)

\* handleProxyMode "Construct target URL": new URL(targetOrigin + url.pathname)
proxyTargetUrl(origin, pathname) == parseURL(origin \o pathname)

\* header names, lowercased as the Headers object keeps them
STRIP_HEADERS ==
    { "x-rosetta-token", "authorization", "cf-connecting-ip", "cf-ray",
      "cf-ipcountry", "cf-visitor", "cf-worker", "true-client-ip", "x-real-ip",
      "x-forwarded-for" }
SAFE_FORWARD_HEADERS == {"accept", "accept-language", "accept-encoding"}

\* headers a caller may send besides User-Agent
InboundHeaderSets ==
    SUBSET {"x-rosetta-token", "authorization", "cf-connecting-ip", "cookie",
            "accept-language"}

\* variant: the inbound headers are cloned and forwarded as they are
proxyToOriginHeaders_Cloned(headers) == headers \cup {"host"}

\* proxyToOrigin: clone, delete every STRIP_HEADERS name, set Host
proxyToOriginHeaders(headers) == (headers \ STRIP_HEADERS) \cup {"host"}

\* fetchFallback: only the SAFE_FORWARD_HEADERS present on the request
fetchFallbackHeaders(headers) == headers \cap SAFE_FORWARD_HEADERS

\* scrapeWithTimeout's raw-HTML fetch: its own User-Agent and Accept
rawHtmlHeaders == {"user-agent", "accept"}

\* ------------------------------------------------------ extraction backend
ScrapeOutcomes ==
    { [kind |-> "ok", md |-> MdA], [kind |-> "ok", md |-> MdB],
      [kind |-> "ok", md |-> HtmlDoc],
      [kind |-> "timeout", md |-> Absent],
      [kind |-> "backendError", md |-> Absent],
      [kind |-> "badPayload", md |-> Absent] }

\* variant: the markdown field is returned without the isHTML test
scrapeWithTimeout_NoHtmlCheck(out) ==
    IF out.kind # "ok" THEN Absent ELSE out.md

\* the value scrapeWithTimeout resolves to; Absent is null
scrapeWithTimeout(out) ==
    IF out.kind # "ok" THEN Absent
    ELSE IF out.md = Absent THEN Absent
    ELSE IF isHTML(out.md) THEN Absent
    ELSE out.md

\* --------------------------------------------------------- inbound requests
Request(route, token, auth, customerId, target, crawlMode, ua, path, targetParam, headers) ==
    [route |-> route, token |-> token, auth |-> auth, customerId |-> customerId,
     target |-> target, crawlMode |-> crawlMode, ua |-> ua, path |-> path,
     targetParam |-> targetParam, headers |-> headers]

NoTarget == [kind |-> "missing", scheme |-> "-", host |-> "-"]
NoRequest ==
    Request("-", "absent", "absent", "absent", NoTarget, "-", "absent", <<"/">>,
            Absent, {})

\* the X-Rosetta-Token and Authorization values go with their header names
tokenOf(headers, token) == IF "x-rosetta-token" \in headers THEN token ELSE "absent"
authOf(headers, auth) == IF "authorization" \in headers THEN auth ELSE "absent"

RenderRequests ==
    { Request("/render", tokenOf(h, t), "absent", "absent", tg, "-", "absent",
              <<"/", "render">>, Absent, h) :
        t \in Tokens, tg \in Targets, h \in InboundHeaderSets }

CustomerIds == {"cust1", "custUnknown"}
CustomerStore == {"cust1"}

InternalRequests ==
    { Request("/render/internal", "absent", authOf(h, a), c, tg, "-", "absent",
              <<"/", "render", "/", "internal">>, Absent, h) :
        a \in {"service", "wrong"}, c \in CustomerIds \cup {"absent"},
        tg \in Targets, h \in {{}, {"authorization"}, {"authorization", "cookie"}} }

CrawlRequests ==
    { Request("/_rosetta/crawl", tokenOf(h, t), "absent", "absent", tg, m, "absent",
              <<"/", "_rosetta", "/", "crawl">>, Absent, h) :
        t \in Tokens, tg \in Targets, m \in {"single", "full"},
        h \in {{}, {"x-rosetta-token"}, {"x-rosetta-token", "cookie"}} }

ProxyRequests ==
    { Request("proxy", "absent", "absent", "absent", NoTarget, "-", ua, path,
              tp, h) :
        ua \in UserAgents, path \in Paths, tp \in TargetParams,
        h \in InboundHeaderSets }

Inbound == RenderRequests \cup InternalRequests \cup CrawlRequests \cup ProxyRequests

\* the header names of the inbound request
headerNames(rq) ==
    rq.headers \cup (IF rq.ua = "absent" THEN {} ELSE {"user-agent"})

\* a fetch the worker sends: to the origin or to the extraction backend,
\* from which call site, for which URL (its origin), with which headers
Call(to, via, url, headers) ==
    [to |-> to, via |-> via, url |-> url, headers |-> headers]

\* what the origin did with the fallback or pass-through fetch
NoOrigin == [fetched |-> FALSE, reached |-> FALSE, status |-> 0]
OriginAnswer(originOk, os) ==
    [fetched |-> TRUE, reached |-> originOk, status |-> IF originOk THEN os ELSE 0]

\* what one run of scrapeWithTimeout meets, and what it gives back
NoScrape == [fetch |-> "-", backendOk |-> FALSE, json |-> "-", md |-> Absent,
             rawHtml |-> "-"]
NoResult == [returned |-> FALSE, thrown |-> FALSE, value |-> Absent, caught |-> "-"]

\* the crawl:: record: who started the crawl, whether its pages are to be
\* cached, the allowlist recorded at the start
Meta(customerId, cacheResults, allowedDomains) ==
    [customerId |-> customerId, cacheResults |-> cacheResults,
     allowedDomains |-> allowedDomains]
NoMeta == Meta("-", FALSE, {})

\* what the SDK middleware meets: the User-Agent, what its fetch of
\* <api>/render does, what the site answers for the same URL
SdkRequest(build, ua, api, originOk, os) ==
    [build |-> build, ua |-> ua, api |-> api, originOk |-> originOk, os |-> os]
NoSdkRequest == SdkRequest("-", "absent", [kind |-> "-", status |-> 0, rosetta |-> "-"],
                           FALSE, 0)

\* an absolute https URL as written: host, query (the pairs between "?",
\* "&" as written: name, whether "=" is there, value), fragment
Url(host, query, hash) == [host |-> host, query |-> query, hash |-> hash]
NoUrl == Url("-", <<>>, "")
NoFingerprint == <<"-", NoUrl>>

\* customerConfig.bot_overrides; a config without overrides has both empty
BotConfig(include, exclude) == [include |-> include, exclude |-> exclude]
NoBotInput == [ua |-> <<"-">>, config |-> BotConfig({}, {})]

\* ------------------------------------------------------------ dashboard
NumProcs == 2
MaxTokens == 6
Procs == 1..NumProcs
TokenIds == 1..MaxTokens

\* const MAX_ACTIVE_TOKENS = 5
MAX_ACTIVE_TOKENS == 5

\* `for (let attempt = 1; attempt <= 3; attempt++)` of kvPutWithRetry
PutAttempts == 3

\* hostnames a customer may add
Domains == {"a.example", "b.example"}

\* JSON.stringify(config) of a CustomerConfigV2, as far as the worker's
\* allowlist reads it
Config(domains) == [present |-> TRUE, domains |-> domains]
NoConfig == [present |-> FALSE, domains |-> {}]

\* an invocation that runs no operation
NoOp == [kind |-> "none", pc |-> "idle", token |-> 0, count |-> 0,
         domains |-> {}, tokens |-> {}]

\* ------------------------------------------------------------------ state
VARIABLES
    kvUp,        \* the store answers (FALSE: its operations reject)
    kvMd,        \* ROSETTA_CACHE md:<fingerprint>
    kvPending,   \* ROSETTA_CACHE pending:<fingerprint>: NoMarker or its writer
    pc,          \* position of each request in its handler
    mode,        \* "api" (GET /render) or "proxy"
    polls,       \* i of the poll loop (0 outside the loop)
    sawPending,  \* the pending read returned a marker
    mdValue,     \* the md handed to cacheExtractedContent
    invoked,     \* number of scrapeWithTimeout calls of the request
    putIssued,   \* number of pending-marker puts of the request
    delIssued,   \* number of pending-marker deletes issued
    delInflight, \* detached deletes not yet resolved
    mdTask,      \* detached md write-back: "none", "inflight", "done"
    resp,        \* the response, once pc = "done"
    \* one request followed through routing, authorization and its outbound calls
    inb,         \* the inbound request, NoRequest before it arrives
    gresp,       \* its response
    outbound,    \* the requests the worker sent for it (origin, extraction backend)
    kvLog,       \* the ROSETTA_CACHE operations issued for it, in order
    originSays,  \* what the origin did with the last fetch sent to it
    \* one call of scrapeWithTimeout followed through its awaits
    sPhase,      \* where the call is
    sArmed,      \* the abort timer is set and not cleared
    sClock,      \* time since the call, in units of the budget's granularity
    sOut,        \* what the backend and the origin do during the call
    sRes,        \* what the call gave its caller
    \* the crawl tracker
    crawlMeta,   \* ROSETTA_CACHE crawl::<id>, NoMeta when there is none
    crawlCached, \* source hosts of the pages handleCrawlStatus put under md:
    crawlResp,   \* status of the last /_rosetta/crawl response, 0 before
    \* the SDK middleware in front of a site
    sdkIn,       \* the request it received and what the API and the origin do
    sdkOut,      \* the response the crawler gets
    \* cache keys
    urlA,        \* a target URL, NoUrl before one is given
    urlB,        \* another spelling of it
    fpA,         \* the fingerprint computed for urlA
    fpB,         \* the fingerprint computed for urlB
    \* bot classification
    botIn,       \* a User-Agent and a customer config, NoBotInput before
    botOut,      \* "bot" or "notBot" once isAIBot returned, "none" before
    \* the other detached tasks of a successful extraction of GET /render
    usage,       \* ROSETTA_CACHE usage:<customer>:<month>, 0 when absent
    usageTask,   \* incrementUsage of each request: "none", "issued", "read", "done"
    usageRead,   \* the value its get returned
    sideInflight, \* html put, tokens put, metrics callback not yet settled
    sideFailed,  \* those that failed (logged)
    \* the dashboard: Postgres, the auth keys it writes to KV, its operations
    dbTokens,    \* ApiToken row of each token: "none", "active", "revoked", "deleted"
    dbDomains,   \* hostnames of the customer's Domain rows
    kvAuth,      \* apikeyhash:<sha256(token)> of each token, NoConfig when absent
    kvCustomer,  \* customer:<id>, NoConfig when absent
    ops,         \* the dashboard operation each server invocation is running
    revokeReturned, \* tokens for which revokeApiToken has returned
    createFailed,   \* tokens whose createApiTokenForCustomer threw after the row was created
    syncThrew,   \* some syncCustomerAuthToKV has thrown
    \* one crawl job as the backend and its pollers see it
    crawlOwner,  \* customerId of the tenant whose handleCrawlStart created it, "-" before
    crawlMetaDue, \* handleCrawlStart has the job id and has not put crawl::<id> yet
    crawlCaller  \* customerId of the tenant that polled last, "-" before

cacheVars == <<kvUp, kvMd, kvPending, pc, mode, polls, sawPending, mdValue, invoked,
               putIssued, delIssued, delInflight, mdTask, resp>>
gateVars == <<inb, gresp, outbound, kvLog, originSays>>
scrapeVars == <<sPhase, sArmed, sClock, sOut, sRes>>

crawlVars == <<crawlMeta, crawlCached, crawlResp>>
sdkVars == <<sdkIn, sdkOut>>
canonVars == <<urlA, urlB, fpA, fpB>>
botVars == <<botIn, botOut>>
otherVars == <<crawlVars, sdkVars, canonVars, botVars>>
usageVars == <<usage, usageTask, usageRead, sideInflight, sideFailed>>
dashVars == <<dbTokens, dbDomains, kvAuth, kvCustomer, ops, revokeReturned, createFailed,
              syncThrew>>
jobVars == <<crawlOwner, crawlMetaDue, crawlCaller>>
lateVars == <<dashVars, jobVars>>
restVars == <<otherVars, usageVars, lateVars>>

vars == <<cacheVars, gateVars, scrapeVars, restVars>>

Init ==
    /\ kvUp = TRUE
    /\ kvMd = Absent
    /\ kvPending = NoMarker
    /\ pc = [r \in Reqs |-> "idle"]
    /\ mode = [r \in Reqs |-> "none"]
    /\ polls = [r \in Reqs |-> 0]
    /\ sawPending = [r \in Reqs |-> FALSE]
    /\ mdValue = [r \in Reqs |-> Absent]
    /\ invoked = [r \in Reqs |-> 0]
    /\ putIssued = [r \in Reqs |-> 0]
    /\ delIssued = [r \in Reqs |-> 0]
    /\ delInflight = [r \in Reqs |-> 0]
    /\ mdTask = [r \in Reqs |-> "none"]
    /\ resp = [r \in Reqs |-> NoResp]
    /\ inb = NoRequest
    /\ gresp = NoResp
    /\ outbound = {}
    /\ kvLog = <<>>
    /\ originSays = NoOrigin
    /\ sPhase = "idle"
    /\ sArmed = FALSE
    /\ sClock = 0
    /\ sOut = NoScrape
    /\ sRes = NoResult
    /\ crawlMeta = NoMeta
    /\ crawlCached = {}
    /\ crawlResp = 0
    /\ sdkIn = NoSdkRequest
    /\ sdkOut = NoResp
    /\ urlA = NoUrl
    /\ urlB = NoUrl
    /\ fpA = NoFingerprint
    /\ fpB = NoFingerprint
    /\ botIn = NoBotInput
    /\ botOut = "none"
    /\ usage = 0
    /\ usageTask = [r \in Reqs |-> "none"]
    /\ usageRead = [r \in Reqs |-> 0]
    /\ sideInflight = [r \in Reqs |-> {}]
    /\ dbTokens = [t \in TokenIds |-> "none"]
    /\ dbDomains = {}
    /\ kvAuth = [t \in TokenIds |-> NoConfig]
    /\ kvCustomer = NoConfig
    /\ ops = [p \in Procs |-> NoOp]
    /\ revokeReturned = {}
    /\ createFailed = {}
    /\ syncThrew = FALSE
    /\ crawlOwner = "-"
    /\ crawlMetaDue = FALSE
    /\ crawlCaller = "-"
    /\ sideFailed = [r \in Reqs |-> {}]

\* env.ROSETTA_CACHE.get: the stored value, or a rejection, which every
\* caller catches and logs, keeping its `null`
kvGet(stored, null) == IF kvUp THEN stored ELSE null

\* env.ROSETTA_CACHE.put / delete: the new stored value; a rejection is
\* caught and logged and leaves the store as it was
kvPut(stored, value) == IF kvUp THEN value ELSE stored

Finish(r, response) ==
    /\ pc' = [pc EXCEPT ![r] = "done"]
    /\ resp' = [resp EXCEPT ![r] = response]

Goto(r, label) ==
    /\ pc' = [pc EXCEPT ![r] = label]
    /\ UNCHANGED resp

\* --------------------------------------------------------- request arrival
\* Spec follows the requests that reach the cache pipeline: a GET /render
\* that passed 1. AUTH and 2. VALIDATE URL, and a proxied request classified
\* as an AI bot.  Nothing before that point touches md: or pending:.
\* Requests arrive in index order.
InOrder(r) == IF r = 1 THEN TRUE ELSE pc[r - 1] # "idle"

\* the customer record of a token: hashed store first, then the legacy one
resolveCustomer(token) == token \in HashedStore \/ token \in LegacyStore

\* variant: the URL is checked before the credential
validate_UrlFirst(customerFound, target) ==
    IF target.kind = "url" /\ target.scheme = "https:"
                           /\ stripWww(target.host) \notin CustomerDomains THEN 403
    ELSE IF ~customerFound THEN 401
    ELSE IF target.kind = "missing" THEN 400
    ELSE IF target.kind = "garbage" THEN 400
    ELSE IF target.scheme # "https:" THEN 400
    ELSE IF isPrivateHost(target.host) THEN 400
    ELSE 200

\* variant: the allowlist test is skipped, the private-host test kept
validate_NoAllowlist(customerFound, target) ==
    IF ~customerFound THEN 401
    ELSE IF target.kind = "missing" THEN 400
    ELSE IF target.kind = "garbage" THEN 400
    ELSE IF target.scheme # "https:" THEN 400
    ELSE IF isPrivateHost(target.host) THEN 400
    ELSE 200

\* variant: the private-host test precedes the allowlist test
validate_PrivateFirst(customerFound, target) ==
    IF ~customerFound THEN 401
    ELSE IF target.kind = "missing" THEN 400
    ELSE IF target.kind = "garbage" THEN 400
    ELSE IF target.scheme # "https:" THEN 400
    ELSE IF isPrivateHost(target.host) THEN 400
    ELSE IF stripWww(target.host) \notin CustomerDomains THEN 403
    ELSE 200

\* _handleRenderLogic 1. AUTH (after the lookup) and 2. VALIDATE URL: the
\* status of the first failing check, 200 when all pass
validate(customerFound, target) ==
    IF ~customerFound THEN 401
    ELSE IF target.kind = "missing" THEN 400
    ELSE IF target.kind = "garbage" THEN 400
    ELSE IF target.scheme # "https:" THEN 400
    ELSE IF stripWww(target.host) \notin CustomerDomains THEN 403
    ELSE IF isPrivateHost(target.host) THEN 400
    ELSE 200

ArriveRender(r) ==
    /\ pc[r] = "idle"
    /\ InOrder(r)
    /\ \E token \in Tokens, target \in Targets :
          validate(resolveCustomer(token), target) = 200
    /\ mode' = [mode EXCEPT ![r] = "api"]
    /\ Goto(r, "cacheGet")
    /\ UNCHANGED <<kvUp, kvMd, kvPending, polls, sawPending, mdValue, invoked,
                   putIssued, delIssued, delInflight, mdTask>>
    /\ UNCHANGED <<gateVars, scrapeVars, restVars>>

\* handleProxyMode: the target origin is allowed and the request is not
\* passed through (`!isBot || isAsset || isBlacklisted` is false)
ArriveProxy(r) ==
    /\ pc[r] = "idle"
    /\ InOrder(r)
    /\ \E targetParam \in TargetParams, ua \in UserAgents, path \in Paths :
          /\ targetOrigin(targetParam).status = 200
          /\ ~(~isAIBot(ua) \/ isAsset(path) \/ isBlacklisted(path))
    /\ mode' = [mode EXCEPT ![r] = "proxy"]
    /\ Goto(r, "cacheGet")
    /\ UNCHANGED <<kvUp, kvMd, kvPending, polls, sawPending, mdValue, invoked,
                   putIssued, delIssued, delInflight, mdTask>>
    /\ UNCHANGED <<gateVars, scrapeVars, restVars>>

\* ------------------------------------------------------------ cache check
HitResponse(m, md) ==
    IF m = "api" THEN Resp(200, "hit", md, "-")
    ELSE IF m = "internal" THEN Resp(200, "HIT", Absent, "-")
    ELSE Resp(200, "HIT", md, "-")

\* 4. CACHE CHECK: env.ROSETTA_CACHE.get(cacheKey); a failed read is logged
\* and leaves `cached` null
CacheGet(r) ==
    /\ pc[r] = "cacheGet"
    /\ LET cached == kvGet(kvMd, Absent)
       IN  IF usable(cached) THEN Finish(r, HitResponse(mode[r], cached))
                             ELSE Goto(r, "pendingGet")
    /\ UNCHANGED <<kvUp, kvMd, kvPending, mode, polls, sawPending, mdValue, invoked, putIssued,
                   delIssued, delInflight, mdTask>>
    /\ UNCHANGED <<gateVars, scrapeVars, restVars>>

\* 5. SINGLE-FLIGHT CHECK: env.ROSETTA_CACHE.get(pendingKey)
PendingGet(r) ==
    /\ pc[r] = "pendingGet"
    /\ LET pending == kvGet(kvPending, NoMarker)
       IN  /\ sawPending' = [sawPending EXCEPT ![r] = (pending # NoMarker)]
           /\ IF pending # NoMarker THEN Goto(r, "poll")
                                    ELSE Goto(r, "pendingPut")
    /\ UNCHANGED <<kvUp, kvMd, kvPending, mode, polls, mdValue, invoked, putIssued,
                   delIssued, delInflight, mdTask>>
    /\ UNCHANGED <<gateVars, scrapeVars, restVars>>

\* variant: both handlers fall through to extraction after the loop
afterPoll_FallThrough(m) == "pendingPut"

\* where the handler goes when the poll loop ends without a value
afterPoll(m) == IF m = "api" THEN "fetchFallback" ELSE "pendingPut"

\* variant: the loop starts over when its last read finds nothing
Poll_Restart(r) ==
    /\ pc[r] = "poll"
    /\ polls[r] < PollAttempts
    /\ LET md == kvGet(kvMd, Absent)
       IN  IF usable(md)
           THEN /\ Finish(r, HitResponse(mode[r], md))
                /\ polls' = [polls EXCEPT ![r] = 0]
           ELSE /\ Goto(r, "poll")
                /\ polls' = [polls EXCEPT ![r] = (@ + 1) % PollAttempts]
    /\ UNCHANGED <<kvUp, kvMd, kvPending, mode, sawPending, mdValue, invoked,
                   putIssued, delIssued, delInflight, mdTask>>
    /\ UNCHANGED <<gateVars, scrapeVars, restVars>>

\* one iteration of `for (let i = 0; i < 6; i++)`: sleep(500), then read
\* the cache; i is gone once the loop is left
Poll(r) ==
    /\ pc[r] = "poll"
    /\ polls[r] < PollAttempts
    /\ LET md == kvGet(kvMd, Absent)
       IN  IF usable(md)
           THEN /\ Finish(r, HitResponse(mode[r], md))
                /\ polls' = [polls EXCEPT ![r] = 0]
           ELSE IF polls[r] + 1 < PollAttempts
           THEN /\ Goto(r, "poll")
                /\ polls' = [polls EXCEPT ![r] = @ + 1]
           ELSE /\ Goto(r, afterPoll(mode[r]))
                /\ polls' = [polls EXCEPT ![r] = 0]
    /\ UNCHANGED <<kvUp, kvMd, kvPending, mode, sawPending, mdValue, invoked,
                   putIssued, delIssued, delInflight, mdTask>>
    /\ UNCHANGED <<gateVars, scrapeVars, restVars>>

\* 6. EXTRACT: env.ROSETTA_CACHE.put(pendingKey, ...), unconditional; once
\* the put has resolved (or rejected, which is logged) the handler calls
\* scrapeWithTimeout(canonical, ..., EXTRACT_TIMEOUT_MS)
PendingPut(r) ==
    /\ pc[r] = "pendingPut"
    /\ putIssued' = [putIssued EXCEPT ![r] = @ + 1]
    /\ kvPending' = kvPut(kvPending, r)
    /\ invoked' = [invoked EXCEPT ![r] = @ + 1]
    /\ Goto(r, "scraping")
    /\ UNCHANGED <<kvUp, kvMd, mode, polls, sawPending, mdValue, delIssued, delInflight, mdTask>>
    /\ UNCHANGED <<gateVars, scrapeVars, restVars>>

IssueDelete(r, n) ==
    /\ delIssued' = [delIssued EXCEPT ![r] = @ + n]
    /\ delInflight' = [delInflight EXCEPT ![r] = @ + n]

\* cacheExtractedContent(env, ctx, hash, md, ...): the detached write-back
CacheExtracted(r, md) ==
    /\ mdValue' = [mdValue EXCEPT ![r] = md]
    /\ mdTask' = [mdTask EXCEPT ![r] = "inflight"]

\* the rest of the success path of _handleRenderLogic: incrementUsage is
\* called, the html and tokens puts of cacheExtractedContent and the
\* metrics callback are detached
TrackSuccess(r) ==
    /\ usageTask' = [usageTask EXCEPT ![r] = "issued"]
    /\ sideInflight' = [sideInflight EXCEPT ![r] = {"extras", "metrics"}]

\* variant: the marker delete is issued on the success path only
ScrapeResolveRender_LeakOnFailure(r) ==
    /\ pc[r] = "scraping" /\ mode[r] = "api"
    /\ \E out \in ScrapeOutcomes, throws \in BOOLEAN :
        LET md == scrapeWithTimeout(out)
        IN  IF md # Absent /\ ~throws
            THEN /\ CacheExtracted(r, md)
                 /\ IssueDelete(r, 1)
                 /\ TrackSuccess(r)
                 /\ Finish(r, Resp(200, "miss", md, "-"))
            ELSE /\ UNCHANGED <<mdValue, mdTask, delIssued, delInflight>>
                 /\ UNCHANGED <<usageTask, sideInflight>>
                 /\ Goto(r, "fetchFallback")
    /\ UNCHANGED <<kvUp, kvMd, kvPending, mode, polls, sawPending, invoked,
                   putIssued>>
    /\ UNCHANGED <<usage, usageRead, sideFailed>>
    /\ UNCHANGED <<gateVars, scrapeVars, otherVars, lateVars>>

\* variant: the write-back is awaited inside the try block, so a store
\* that rejects it sends the request to the fallback
ScrapeResolveRender_AwaitsWriteBack(r) ==
    /\ pc[r] = "scraping" /\ mode[r] = "api"
    /\ IssueDelete(r, 1)
    /\ \E out \in ScrapeOutcomes, throws \in BOOLEAN :
        LET md == scrapeWithTimeout(out)
        IN  IF md # Absent /\ ~throws
            THEN /\ CacheExtracted(r, md)
                 /\ TrackSuccess(r)
                 /\ IF kvUp THEN Finish(r, Resp(200, "miss", md, "-"))
                    ELSE Goto(r, "fetchFallback")
            ELSE /\ UNCHANGED <<mdValue, mdTask>>
                 /\ UNCHANGED <<usageTask, sideInflight>>
                 /\ Goto(r, "fetchFallback")
    /\ UNCHANGED <<kvUp, kvMd, kvPending, mode, polls, sawPending, invoked,
                   putIssued>>
    /\ UNCHANGED <<usage, usageRead, sideFailed>>
    /\ UNCHANGED <<gateVars, scrapeVars, otherVars, lateVars>>

\* scrapeWithTimeout resolves in _handleRenderLogic.  On markdown:
\* cacheExtractedContent, the detached marker delete, the 200 miss response.
\* An exception in that block (throws) is caught; then, as on a null
\* result, the marker delete is issued and the handler awaits fetchFallback.
ScrapeResolveRender(r) ==
    /\ pc[r] = "scraping" /\ mode[r] = "api"
    /\ IssueDelete(r, 1)
    /\ \E out \in ScrapeOutcomes, throws \in BOOLEAN :
        LET md == scrapeWithTimeout(out)
        IN  IF md # Absent /\ ~throws
            THEN /\ CacheExtracted(r, md)
                 /\ TrackSuccess(r)
                 /\ Finish(r, Resp(200, "miss", md, "-"))
            ELSE /\ UNCHANGED <<mdValue, mdTask>>
                 /\ UNCHANGED <<usageTask, sideInflight>>
                 /\ Goto(r, "fetchFallback")
    /\ UNCHANGED <<kvUp, kvMd, kvPending, mode, polls, sawPending, invoked,
                   putIssued>>
    /\ UNCHANGED <<usage, usageRead, sideFailed>>
    /\ UNCHANGED <<gateVars, scrapeVars, otherVars, lateVars>>

\* scrapeWithTimeout resolves in handleProxyMode: the marker delete is
\* issued first; on markdown cacheExtractedContent (outside any try: an
\* exception there leaves the handler) and the 200 response, otherwise the
\* handler awaits proxyToOrigin
ScrapeResolveProxy(r) ==
    /\ pc[r] = "scraping" /\ mode[r] = "proxy"
    /\ IssueDelete(r, 1)
    /\ \E out \in ScrapeOutcomes, throws \in BOOLEAN :
        LET md == scrapeWithTimeout(out)
        IN  IF md # Absent /\ ~throws
            THEN /\ CacheExtracted(r, md)
                 /\ Finish(r, Resp(200, "MISS (Rendered)", md, "-"))
            ELSE IF md # Absent
            THEN /\ UNCHANGED <<mdValue, mdTask>>
                 /\ Finish(r, Uncaught("throw"))
            ELSE /\ UNCHANGED <<mdValue, mdTask>>
                 /\ Goto(r, "proxyFallback")
    /\ UNCHANGED <<kvUp, kvMd, kvPending, mode, polls, sawPending, invoked,
                   putIssued>>
    /\ UNCHANGED <<gateVars, scrapeVars, restVars>>

\* variant: an unreachable origin is reported as 502
fetchFallback_BadGateway(originOk, os) ==
    IF originOk THEN Resp(200, "fallback", OriginHtml, os)
                ELSE Resp(502, "error", Placeholder, "unavailable")

\* fetchFallback(canonical, request): always a 200 response
fetchFallback(originOk, os) ==
    IF originOk THEN Resp(200, "fallback", OriginHtml, os)
                ELSE Resp(200, "error", Placeholder, "unavailable")

\* variant: the fallback path calls incrementUsage too
FetchFallback_CountsUsage(r) ==
    /\ pc[r] = "fetchFallback"
    /\ \E originOk \in BOOLEAN, os \in OriginStatuses :
          Finish(r, fetchFallback(originOk, os))
    /\ usageTask' = [usageTask EXCEPT ![r] = "issued"]
    /\ UNCHANGED <<kvUp, kvMd, kvPending, mode, polls, sawPending, mdValue, invoked, putIssued,
                   delIssued, delInflight, mdTask>>
    /\ UNCHANGED <<usage, usageRead, sideInflight, sideFailed>>
    /\ UNCHANGED <<gateVars, scrapeVars, otherVars, lateVars>>

FetchFallback(r) ==
    /\ pc[r] = "fetchFallback"
    /\ \E originOk \in BOOLEAN, os \in OriginStatuses :
          Finish(r, fetchFallback(originOk, os))
    /\ UNCHANGED <<kvUp, kvMd, kvPending, mode, polls, sawPending, mdValue, invoked, putIssued,
                   delIssued, delInflight, mdTask>>
    /\ UNCHANGED <<gateVars, scrapeVars, restVars>>

\* variant: the origin's response is passed on with its own status
proxyFallback_KeepStatus(originOk, os) ==
    IF originOk THEN Resp(os, "FAIL (Fallback)", OriginHtml, os)
                ELSE Uncaught("origin")

\* handleProxyMode "Fallback to origin HTML": await proxyToOrigin with no
\* try around it, then the response rebuilt with status 200
proxyFallback(originOk, os) ==
    IF originOk THEN Resp(200, "FAIL (Fallback)", OriginHtml, os)
                ELSE Uncaught("origin")

ProxyFallback(r) ==
    /\ pc[r] = "proxyFallback"
    /\ \E originOk \in BOOLEAN, os \in OriginStatuses :
          Finish(r, proxyFallback(originOk, os))
    /\ UNCHANGED <<kvUp, kvMd, kvPending, mode, polls, sawPending, mdValue, invoked, putIssued,
                   delIssued, delInflight, mdTask>>
    /\ UNCHANGED <<gateVars, scrapeVars, restVars>>

\* ----------------------------------------- detached (ctx.waitUntil) tasks
\* variant: the raw html is stored under the md key
MdWriteBack_StoresHtml(r) ==
    /\ mdTask[r] = "inflight"
    /\ mdTask' = [mdTask EXCEPT ![r] = "done"]
    /\ kvMd' = kvPut(kvMd, HtmlDoc)
    /\ UNCHANGED <<kvUp, kvPending, pc, mode, polls, sawPending, mdValue, invoked, putIssued,
                   delIssued, delInflight, resp>>
    /\ UNCHANGED <<gateVars, scrapeVars, restVars>>

\* cacheExtractedContent: put(mdKey, md, {expirationTtl: CACHE_TTL}).catch
MdWriteBack(r) ==
    /\ mdTask[r] = "inflight"
    /\ mdTask' = [mdTask EXCEPT ![r] = "done"]
    /\ kvMd' = kvPut(kvMd, mdValue[r])
    /\ UNCHANGED <<kvUp, kvPending, pc, mode, polls, sawPending, mdValue, invoked, putIssued,
                   delIssued, delInflight, resp>>
    /\ UNCHANGED <<gateVars, scrapeVars, restVars>>

\* env.ROSETTA_CACHE.delete(pendingKey).catch(...)
PendingDelete(r) ==
    /\ delInflight[r] > 0
    /\ delInflight' = [delInflight EXCEPT ![r] = @ - 1]
    /\ kvPending' = kvPut(kvPending, NoMarker)
    /\ UNCHANGED <<kvUp, kvMd, pc, mode, polls, sawPending, mdValue, invoked, putIssued,
                   delIssued, mdTask, resp>>
    /\ UNCHANGED <<gateVars, scrapeVars, restVars>>

\* ------------------------------------------------------ key-value store
\* the store becomes unavailable, and recovers
StoreFails ==
    /\ kvUp
    /\ kvUp' = FALSE
    /\ UNCHANGED <<kvMd, kvPending, pc, mode, polls, sawPending, mdValue,
                   invoked, putIssued, delIssued, delInflight, mdTask, resp>>
    /\ UNCHANGED <<gateVars, scrapeVars, restVars>>

StoreRecovers ==
    /\ ~kvUp
    /\ kvUp' = TRUE
    /\ UNCHANGED <<kvMd, kvPending, pc, mode, polls, sawPending, mdValue,
                   invoked, putIssued, delIssued, delInflight, mdTask, resp>>
    /\ UNCHANGED <<gateVars, scrapeVars, restVars>>

\* variant: the marker is written without expirationTtl
ExpirePending_NoTtl ==
    /\ FALSE
    /\ UNCHANGED <<cacheVars, gateVars, scrapeVars, restVars>>

\* expirationTtl: PENDING_TTL on the marker, CACHE_TTL on the entry
ExpirePending ==
    /\ kvPending # NoMarker
    /\ kvPending' = NoMarker
    /\ UNCHANGED <<kvUp, kvMd, pc, mode, polls, sawPending, mdValue, invoked, putIssued,
                   delIssued, delInflight, mdTask, resp>>
    /\ UNCHANGED <<gateVars, scrapeVars, restVars>>

ExpireMd ==
    /\ kvMd # Absent
    /\ kvMd' = Absent
    /\ UNCHANGED <<kvUp, kvPending, pc, mode, polls, sawPending, mdValue, invoked, putIssued,
                   delIssued, delInflight, mdTask, resp>>
    /\ UNCHANGED <<gateVars, scrapeVars, restVars>>

Next ==
    \/ \E r \in Reqs : ArriveRender(r)
    \/ \E r \in Reqs : ArriveProxy(r)
    \/ \E r \in Reqs : CacheGet(r)
    \/ \E r \in Reqs : PendingGet(r)
    \/ \E r \in Reqs : Poll(r)
    \/ \E r \in Reqs : PendingPut(r)
    \/ \E r \in Reqs : ScrapeResolveRender(r)
    \/ \E r \in Reqs : ScrapeResolveProxy(r)
    \/ \E r \in Reqs : FetchFallback(r)
    \/ \E r \in Reqs : ProxyFallback(r)
    \/ \E r \in Reqs : MdWriteBack(r)
    \/ \E r \in Reqs : PendingDelete(r)
    \/ StoreFails
    \/ StoreRecovers
    \/ ExpirePending
    \/ ExpireMd

\* requests arriving at any time
Spec == Init /\ [][Next]_vars

\* the steps of the handlers and of their detached tasks
Handle(r) ==
    \/ CacheGet(r)
    \/ PendingGet(r)
    \/ Poll(r)
    \/ PendingPut(r)
    \/ ScrapeResolveRender(r)
    \/ ScrapeResolveProxy(r)
    \/ FetchFallback(r)
    \/ ProxyFallback(r)

Detached(r) == MdWriteBack(r) \/ PendingDelete(r)

\* A burst of concurrent requests: every request arrives before any request
\* has been answered.
NoneDone == \A q \in Reqs : pc[q] # "done"

BurstRender(r) == NoneDone /\ ArriveRender(r)
BurstProxy(r) == NoneDone /\ ArriveProxy(r)

NextBurst ==
    \/ \E r \in Reqs : BurstRender(r)
    \/ \E r \in Reqs : BurstProxy(r)
    \/ \E r \in Reqs : Handle(r)
    \/ \E r \in Reqs : Detached(r)
    \/ StoreFails
    \/ StoreRecovers
    \/ ExpirePending
    \/ ExpireMd

SpecBurst == Init /\ [][NextBurst]_vars

\* Requests one after the other, each arriving once the previous one has
\* been answered (its detached tasks may still be running), the store
\* available throughout and all well within the TTLs of marker and entry.
PrevDone(r) == IF r = 1 THEN TRUE ELSE pc[r - 1] = "done"

SeqRender(r) == PrevDone(r) /\ ArriveRender(r)
SeqProxy(r) == PrevDone(r) /\ ArriveProxy(r)

NextSeq ==
    \/ \E r \in Reqs : SeqRender(r)
    \/ \E r \in Reqs : SeqProxy(r)
    \/ \E r \in Reqs : Handle(r)
    \/ \E r \in Reqs : Detached(r)

SpecSeq == Init /\ [][NextSeq]_vars

\* ------------------------------------------- routing and authorization
\* One request followed from the router to its response: what it was
\* answered, which fetches the worker sent for it, which store operations
\* it issued.
Outcome(response, calls, log, origin) ==
    [resp |-> response, outbound |-> calls, kvLog |-> log, originSays |-> origin]

Rejected(st, log) == Outcome(jsonResponse(st), {}, log, NoOrigin)

\* what the collaborators do while the request is handled
Envs ==
    [hashedFails : BOOLEAN, legacyFails : BOOLEAN, customerFails : BOOLEAN,
     run : {"hit", "extracted", "extractFailed"}, originOk : BOOLEAN,
     os : OriginStatuses, crawlOk : BOOLEAN]

\* variant: the legacy store is no longer consulted
lookupCustomer_NoBridge(token, hashedFails, legacyFails) ==
    IF hashedFails THEN [status |-> 503, log |-> <<"apikeyhash:get">>]
    ELSE IF token \in HashedStore THEN [status |-> 200, log |-> <<"apikeyhash:get">>]
    ELSE [status |-> 401, log |-> <<"apikeyhash:get">>]

\* 1. AUTH of _handleRenderLogic and handleCrawlStart: apikeyhash:<sha256>
\* first, apikey:<token> when that gave nothing; a rejected get is the 503
lookupCustomer(token, hashedFails, legacyFails) ==
    IF hashedFails THEN [status |-> 503, log |-> <<"apikeyhash:get">>]
    ELSE IF token \in HashedStore THEN [status |-> 200, log |-> <<"apikeyhash:get">>]
    ELSE IF legacyFails
    THEN [status |-> 503, log |-> <<"apikeyhash:get", "apikey:get">>]
    ELSE IF token \in LegacyStore
    THEN [status |-> 200, log |-> <<"apikeyhash:get", "apikey:get">>]
    ELSE [status |-> 401, log |-> <<"apikeyhash:get", "apikey:get">>]

\* the URL a validated target names: canonicalize keeps scheme and host
urlOf(target) ==
    <<IF target.scheme = "https:" THEN "https://" ELSE "http://", target.host>>

\* the two fetches of scrapeWithTimeout(url, ...)
scrapeCalls(url) ==
    { Call("extraction", "scrapeWithTimeout", url, {"content-type", "authorization"}),
      Call("origin", "rawHtml", url, rawHtmlHeaders) }

\* the cache pipeline of a request that passed its checks, for the URL it
\* names: 200 from the cache, 200 from the extraction, or the mode's answer
\* to a failed extraction
pipeline(m, url, headers, e) ==
    CASE e.run = "hit" ->
            Outcome(HitResponse(m, MdA), {}, <<"md:get">>, NoOrigin)
      [] e.run = "extracted" ->
            Outcome(IF m = "api" THEN Resp(200, "miss", MdA, "-")
                    ELSE IF m = "internal" THEN Resp(200, "MISS", Absent, "-")
                    ELSE Resp(200, "MISS (Rendered)", MdA, "-"),
                    scrapeCalls(url),
                    <<"md:get", "pending:get", "pending:put", "md:put", "pending:delete">>,
                    NoOrigin)
      [] OTHER ->
            LET log == <<"md:get", "pending:get", "pending:put", "pending:delete">>
            IN  IF m = "api"
                THEN Outcome(fetchFallback(e.originOk, e.os),
                             scrapeCalls(url) \cup
                               {Call("origin", "fetchFallback", url,
                                     fetchFallbackHeaders(headers))},
                             log, OriginAnswer(e.originOk, e.os))
                ELSE IF m = "internal"
                THEN Outcome(Resp(200, "FAIL", Absent, "-"), scrapeCalls(url), log,
                             NoOrigin)
                ELSE Outcome(proxyFallback(e.originOk, e.os),
                             scrapeCalls(url) \cup
                               {Call("origin", "proxyFallback", url,
                                     proxyToOriginHeaders(headers))},
                             log, OriginAnswer(e.originOk, e.os))

\* what follows in an outcome after the store operations of the auth step
After(log, o) == Outcome(o.resp, o.outbound, log \o o.kvLog, o.originSays)

\* handleRenderAPI / _handleRenderLogic for one request
renderHandler(rq, e) ==
    IF rq.token = "absent" THEN Rejected(401, <<>>)
    ELSE LET auth == lookupCustomer(rq.token, e.hashedFails, e.legacyFails)
             checked == validate(auth.status = 200, rq.target)
         IN  IF auth.status = 503 THEN Rejected(503, auth.log)
             ELSE IF checked # 200 THEN Rejected(checked, auth.log)
             ELSE After(auth.log,
                        pipeline("api", urlOf(rq.target), headerNames(rq), e))

\* handleRenderInternal: the checks before the customer lookup
validateInternal(auth, customerId, target) ==
    IF auth # "service" THEN 401
    ELSE IF customerId = "absent" THEN 400
    ELSE IF target.kind = "missing" THEN 400
    ELSE IF target.kind = "garbage" THEN 400
    ELSE IF target.scheme # "https:" THEN 400
    ELSE IF isPrivateHost(target.host) THEN 400
    ELSE 200

\* handleRenderInternal for one request
internalHandler(rq, e) ==
    LET checked == validateInternal(rq.auth, rq.customerId, rq.target)
        log == <<"customer:get">>
    IN  IF checked # 200 THEN Rejected(checked, <<>>)
        ELSE IF e.customerFails THEN Rejected(503, log)
        ELSE IF rq.customerId \notin CustomerStore THEN Rejected(404, log)
        ELSE IF stripWww(rq.target.host) \notin CustomerDomains THEN Rejected(403, log)
        ELSE After(log, pipeline("internal", urlOf(rq.target), headerNames(rq), e))

\* handleCrawlStart: the checks on the body's url
validateCrawl(target) ==
    IF target.kind = "missing" THEN 400
    ELSE IF target.kind = "garbage" THEN 400
    ELSE IF stripWww(target.host) \notin CustomerDomains THEN 403
    ELSE 200

\* handleCrawlStart for one request: a single-page scrape, or the start of
\* a crawl job at the extraction backend
crawlHandler(rq, e) ==
    IF rq.token = "absent" THEN Rejected(401, <<>>)
    ELSE LET auth == lookupCustomer(rq.token, e.hashedFails, e.legacyFails)
             checked == validateCrawl(rq.target)
             url == urlOf(rq.target)
         IN  IF auth.status # 200 THEN Rejected(auth.status, auth.log)
             ELSE IF checked # 200 THEN Rejected(checked, auth.log)
             ELSE IF rq.crawlMode = "single"
             THEN Outcome(jsonResponse(200), scrapeCalls(url),
                          IF e.run = "extractFailed" THEN auth.log
                          ELSE auth.log \o <<"md:put">>,
                          NoOrigin)
             ELSE LET job == {Call("extraction", "crawl", url,
                                   {"content-type", "authorization"})}
                  IN  IF e.crawlOk
                      THEN Outcome(jsonResponse(200), job, auth.log \o <<"crawl:put">>,
                                   NoOrigin)
                      ELSE Outcome(jsonResponse(500), job, auth.log, NoOrigin)

\* variant: the origin's answer is rebuilt as a 200, as on the bot path
passThrough_Always200(originOk, os) ==
    IF originOk THEN Resp(200, "-", OriginHtml, "-") ELSE Uncaught("origin")

\* `return proxyToOrigin(targetUrl, request)`: the origin's response as it
\* is; a rejected fetch leaves the handler
passThrough(originOk, os) ==
    IF originOk THEN Resp(os, "-", OriginHtml, "-") ELSE Uncaught("origin")

\* handleProxyMode for one request
proxyHandler(rq, e) ==
    LET t == targetOrigin(rq.targetParam)
        targetUrl == proxyTargetUrl(t.origin, rq.path)
        headers == headerNames(rq)
    IN  IF t.status # 200 THEN Rejected(t.status, <<>>)
        ELSE IF ~isAIBot(rq.ua) \/ isAsset(rq.path) \/ isBlacklisted(rq.path)
        THEN Outcome(passThrough(e.originOk, e.os),
                     {Call("origin", "passThrough", targetUrl.origin,
                           proxyToOriginHeaders(headers))},
                     <<>>, OriginAnswer(e.originOk, e.os))
        ELSE pipeline("proxy", targetUrl.origin, headers, e)

\* fetch(request, env, ctx): the router
Receive ==
    /\ inb = NoRequest
    /\ inb' \in Inbound
    /\ UNCHANGED <<gresp, outbound, kvLog, originSays>>
    /\ UNCHANGED <<cacheVars, scrapeVars, restVars>>

Answer(o) ==
    /\ gresp' = o.resp
    /\ outbound' = o.outbound
    /\ kvLog' = o.kvLog
    /\ originSays' = o.originSays
    /\ UNCHANGED inb
    /\ UNCHANGED <<cacheVars, scrapeVars, restVars>>

Pending(route) == inb.route = route /\ gresp = NoResp

HandleRender == Pending("/render") /\ \E e \in Envs : Answer(renderHandler(inb, e))
HandleInternal ==
    Pending("/render/internal") /\ \E e \in Envs : Answer(internalHandler(inb, e))
HandleCrawl ==
    Pending("/_rosetta/crawl") /\ \E e \in Envs : Answer(crawlHandler(inb, e))
HandleProxy == Pending("proxy") /\ \E e \in Envs : Answer(proxyHandler(inb, e))

NextGate ==
    \/ Receive
    \/ HandleRender
    \/ HandleInternal
    \/ HandleCrawl
    \/ HandleProxy

SpecGate == Init /\ [][NextGate]_vars

\* ------------------------------------------------- entries of any shape
\* handleCrawlStatus caches the pages of a finished crawl: page.markdown is
\* put under md:<fingerprint> as the backend returned it
CrawlPages == {MdA, HtmlDoc, BomHtml, CommentHtml}

CrawlCacheWrite ==
    /\ \E markdown \in CrawlPages : kvMd' = kvPut(kvMd, markdown)
    /\ kvMd' # kvMd
    /\ UNCHANGED <<kvUp, kvPending, pc, mode, polls, sawPending, mdValue, invoked,
                   putIssued, delIssued, delInflight, mdTask, resp>>
    /\ UNCHANGED <<gateVars, scrapeVars, restVars>>

\* handleRenderInternal past its checks: the same pipeline, JSON answers
ArriveInternal(r) ==
    /\ pc[r] = "idle"
    /\ InOrder(r)
    /\ \E auth \in {"service", "wrong", "absent"}, customerId \in CustomerIds,
          target \in Targets :
          /\ validateInternal(auth, customerId, target) = 200
          /\ customerId \in CustomerStore
          /\ stripWww(target.host) \in CustomerDomains
    /\ mode' = [mode EXCEPT ![r] = "internal"]
    /\ Goto(r, "cacheGet")
    /\ UNCHANGED <<kvUp, kvMd, kvPending, polls, sawPending, mdValue, invoked,
                   putIssued, delIssued, delInflight, mdTask>>
    /\ UNCHANGED <<gateVars, scrapeVars, restVars>>

\* scrapeWithTimeout resolves in handleRenderInternal: cacheStatus MISS on
\* markdown, otherwise (null, or an exception caught) cacheStatus FAIL
ScrapeResolveInternal(r) ==
    /\ pc[r] = "scraping" /\ mode[r] = "internal"
    /\ IssueDelete(r, 1)
    /\ \E out \in ScrapeOutcomes, throws \in BOOLEAN :
        LET md == scrapeWithTimeout(out)
        IN  IF md # Absent /\ ~throws
            THEN /\ CacheExtracted(r, md)
                 /\ Finish(r, Resp(200, "MISS", Absent, "-"))
            ELSE /\ UNCHANGED <<mdValue, mdTask>>
                 /\ Finish(r, Resp(200, "FAIL", Absent, "-"))
    /\ UNCHANGED <<kvUp, kvMd, kvPending, mode, polls, sawPending, invoked,
                   putIssued>>
    /\ UNCHANGED <<gateVars, scrapeVars, restVars>>

\* handleRenderContent past its service authorization: the md entry is read
\* and returned as mdContent
RenderContent(r) ==
    /\ pc[r] = "idle"
    /\ InOrder(r)
    /\ mode' = [mode EXCEPT ![r] = "content"]
    /\ LET mdContent == kvGet(kvMd, Absent)
       IN  Finish(r, Resp(200, "content", mdContent, "-"))
    /\ UNCHANGED <<kvUp, kvMd, kvPending, polls, sawPending, mdValue, invoked,
                   putIssued, delIssued, delInflight, mdTask>>
    /\ UNCHANGED <<gateVars, scrapeVars, restVars>>

NextStored ==
    \/ CrawlCacheWrite
    \/ \E r \in Reqs : ArriveRender(r)
    \/ \E r \in Reqs : ArriveProxy(r)
    \/ \E r \in Reqs : ArriveInternal(r)
    \/ \E r \in Reqs : RenderContent(r)
    \/ \E r \in Reqs : Handle(r)
    \/ \E r \in Reqs : ScrapeResolveInternal(r)
    \/ \E r \in Reqs : Detached(r)

\* the four handlers that read md:<fingerprint>, over entries written by
\* extraction and by the crawl tracker
SpecStored == Init /\ [][NextStored]_vars

\* ------------------------------------------- one call of scrapeWithTimeout
\* const EXTRACT_TIMEOUT_MS = 3000: the timeoutMs of every call
EXTRACT_TIMEOUT_MS == 3000

\* the clock advances in steps of TickMs and is followed up to MaxClockMs
TickMs == 1000
MaxClockMs == 5000

\* what the two fetches and the two body reads do during one call:
\*   fetch     the Promise.all of the two fetches resolves, rejects (the
\*             backend fetch fails in transport), or does not settle
\*   backendOk firecrawlResponse.ok
\*   json      firecrawlResponse.json() parses, rejects, or does not settle
\*   md        json.data.markdown (Absent: success, data or markdown missing)
\*   rawHtml   rawHtmlResponse is null (its fetch failed and was caught), is
\*             not ok, or its text() is read, rejects, or does not settle
Scrapes ==
    [fetch : {"resolves", "rejects", "hangs"},
     backendOk : BOOLEAN,
     json : {"parsed", "rejects", "stalls"},
     md : {MdA, HtmlDoc, Absent},
     rawHtml : {"null", "notOk", "text", "rejects", "stalls"}]

\* how the call ended: returned is set when it ended, thrown when it ended
\* by an exception; caught is the error its catch block received and logged
Returned(value) ==
    [returned |-> TRUE, thrown |-> FALSE, value |-> value, caught |-> "-"]
Thrown(err) ==
    [returned |-> TRUE, thrown |-> TRUE, value |-> Absent, caught |-> err]

\* variant: the catch block returns null for AbortError only
catchBlock_Rethrow(err) ==
    IF err = "AbortError" THEN [Returned(Absent) EXCEPT !.caught = err]
    ELSE Thrown(err)

\* catch (err) { clearTimeout(timeout); log; return null }
catchBlock(err) == [Returned(Absent) EXCEPT !.caught = err]

\* the awaits of the call: Promise.all, json(), text()
Suspended == sPhase \in {"fetching", "readJson", "readHtml"}

Return(res) ==
    /\ sPhase' = "returned"
    /\ sArmed' = FALSE
    /\ sRes' = res

\* new AbortController(); setTimeout(() => controller.abort(), timeoutMs);
\* the two fetches are started
ScrapeCall ==
    /\ sPhase = "idle"
    /\ \E o \in Scrapes : sOut' = o
    /\ sPhase' = "fetching"
    /\ sArmed' = TRUE
    /\ sClock' = 0
    /\ UNCHANGED <<sRes, cacheVars, gateVars, restVars>>

\* time passes while the call is suspended; an armed timer fires when due
Tick ==
    /\ Suspended
    /\ sClock + TickMs <= MaxClockMs
    /\ ~(sArmed /\ sClock >= EXTRACT_TIMEOUT_MS)
    /\ sClock' = sClock + TickMs
    /\ UNCHANGED <<sPhase, sArmed, sOut, sRes, cacheVars, gateVars, restVars>>

\* the timer fires: controller.abort() rejects the awaited operation with
\* AbortError, which the catch block receives
TimerFires ==
    /\ Suspended
    /\ sArmed
    /\ sClock >= EXTRACT_TIMEOUT_MS
    /\ Return(catchBlock("AbortError"))
    /\ UNCHANGED <<sClock, sOut, cacheVars, gateVars, restVars>>

\* Promise.all settles: a rejection goes to the catch block; otherwise
\* clearTimeout(timeout), then the ok test, then json() is awaited
FetchSettles ==
    /\ sPhase = "fetching"
    /\ sOut.fetch # "hangs"
    /\ IF sOut.fetch = "rejects"
       THEN Return(catchBlock("TypeError"))
       ELSE IF ~sOut.backendOk
            THEN Return(Returned(Absent))
            ELSE /\ sPhase' = "readJson"
                 /\ sArmed' = FALSE
                 /\ UNCHANGED sRes
    /\ UNCHANGED <<sClock, sOut, cacheVars, gateVars, restVars>>

\* the value returned once md is known: null when it is HTML
finish(md) == Returned(scrapeWithTimeout([kind |-> "ok", md |-> md]))

\* json() settles: a rejection goes to the catch block; a payload without
\* markdown returns null; otherwise text() is awaited when rawHtmlResponse
\* is there and ok
JsonSettles ==
    /\ sPhase = "readJson"
    /\ sOut.json # "stalls"
    /\ IF sOut.json = "rejects"
       THEN Return(catchBlock("SyntaxError"))
       ELSE IF sOut.md = Absent
            THEN Return(Returned(Absent))
            ELSE IF sOut.rawHtml \in {"null", "notOk"}
                 THEN Return(finish(sOut.md))
                 ELSE /\ sPhase' = "readHtml"
                      /\ UNCHANGED <<sArmed, sRes>>
    /\ UNCHANGED <<sClock, sOut, cacheVars, gateVars, restVars>>

\* text() settles: its rejection is caught in place (rawHtml stays null)
HtmlSettles ==
    /\ sPhase = "readHtml"
    /\ sOut.rawHtml # "stalls"
    /\ Return(finish(sOut.md))
    /\ UNCHANGED <<sClock, sOut, cacheVars, gateVars, restVars>>

NextScrape ==
    \/ ScrapeCall
    \/ Tick
    \/ TimerFires
    \/ FetchSettles
    \/ JsonSettles
    \/ HtmlSettles

\* one call of scrapeWithTimeout, step by step
SpecScrape == Init /\ [][NextScrape]_vars

\* ------------------------------------------------------- crawl tracker
exceptCrawl == <<cacheVars, gateVars, scrapeVars, sdkVars, canonVars, botVars, usageVars, lateVars>>

\* the tenant every stored credential resolves to
Tenant == "cust1"

\* statusData.data of a completed crawl: the source host of each page and
\* whether the page has markdown
PageHosts == {"example.com", "www.example.com", "sub.example.com", "evil.example"}
MaxPages == 2
CrawlData ==
    {data \in SUBSET [host : PageHosts, markdown : BOOLEAN] :
        Cardinality(data) <= MaxPages}

\* handleCrawlStart, mode 'full': after its checks the crawl is started at
\* the backend and crawl::<id> is written with customer.domains
CrawlStartFull ==
    \E token \in Tokens \cup {"absent"}, target \in Targets,
       hashedFails \in BOOLEAN, legacyFails \in BOOLEAN, crawlOk \in BOOLEAN,
       cacheResults \in BOOLEAN :
        LET auth == lookupCustomer(token, hashedFails, legacyFails)
            checked == validateCrawl(target)
        IN  /\ crawlResp' = (IF token = "absent" THEN 401
                             ELSE IF auth.status # 200 THEN auth.status
                             ELSE IF checked # 200 THEN checked
                             ELSE IF ~crawlOk THEN 500
                             ELSE 200)
            /\ crawlMeta' = (IF crawlResp' = 200
                             THEN Meta(Tenant, cacheResults, CustomerDomains)
                             ELSE crawlMeta)
            /\ UNCHANGED <<crawlCached, exceptCrawl>>

\* a crawl:: record that carries no allowedDomains, or an empty one: the
\* shape handleCrawlStatus reads with `meta.allowedDomains || []`
MetaWithoutDomains ==
    /\ crawlMeta = NoMeta
    /\ \E customerId \in {Tenant, "cust2"}, cacheResults \in BOOLEAN :
          crawlMeta' = Meta(customerId, cacheResults, {})
    /\ UNCHANGED <<crawlCached, crawlResp, exceptCrawl>>

\* expirationTtl: 3600 of the crawl:: record
ExpireMeta ==
    /\ crawlMeta # NoMeta
    /\ crawlMeta' = NoMeta
    /\ UNCHANGED <<crawlCached, crawlResp, exceptCrawl>>

\* the pages of a completed crawl that the detached task puts under md:
cachedPages(meta, data) ==
    { page.host : page \in
        { q \in data : /\ q.markdown
                       /\ ~(meta.allowedDomains # {}
                            /\ stripWww(q.host) \notin meta.allowedDomains) } }

\* handleCrawlStatus
CrawlStatus ==
    \E token \in Tokens \cup {"absent"},
       hashedFails \in BOOLEAN, legacyFails \in BOOLEAN,
       backend \in {"404", "500", "scraping", "completed"}, data \in CrawlData :
        LET auth == lookupCustomer(token, hashedFails, legacyFails)
            st == IF token = "absent" THEN 401
                  ELSE IF auth.status # 200 THEN auth.status
                  ELSE IF crawlMeta # NoMeta /\ crawlMeta.customerId # Tenant THEN 404
                  ELSE IF backend = "404" THEN 404
                  ELSE IF backend = "500" THEN 500
                  ELSE 200
        IN  /\ crawlResp' = st
            /\ crawlCached' =
                 (IF st = 200 /\ backend = "completed" /\ crawlMeta # NoMeta
                     /\ crawlMeta.cacheResults
                  THEN crawlCached \cup cachedPages(crawlMeta, data)
                  ELSE crawlCached)
            /\ UNCHANGED <<crawlMeta, exceptCrawl>>

NextCrawl ==
    \/ CrawlStartFull
    \/ MetaWithoutDomains
    \/ ExpireMeta
    \/ CrawlStatus

\* bulk crawls: started, tracked by crawl::<id>, polled until completed
SpecCrawl == Init /\ [][NextCrawl]_vars

\* ------------------------------------------------------- SDK middleware
exceptSdk == <<cacheVars, gateVars, scrapeVars, crawlVars, canonVars, botVars, usageVars, lateVars>>

\* the two createMiddleware sources of the repository
SdkBuilds == {"packages/vercel/index.ts", "part_003"}

\* the fetch of <api>/render: a response with its status and its
\* X-Rosetta-Status, the abort of the timeout, a network error
ApiOutcomes ==
    { [kind |-> "response", status |-> 200, rosetta |-> "hit"],
      [kind |-> "response", status |-> 200, rosetta |-> "miss"],
      [kind |-> "response", status |-> 200, rosetta |-> "fallback"],
      [kind |-> "response", status |-> 401, rosetta |-> "-"],
      [kind |-> "response", status |-> 403, rosetta |-> "-"],
      [kind |-> "response", status |-> 503, rosetta |-> "-"],
      [kind |-> "timeout", status |-> 0, rosetta |-> "-"],
      [kind |-> "network", status |-> 0, rosetta |-> "-"] }

\* the status the site itself answers for the URL
SiteStatuses == {200, 404, 500}

SdkInputs ==
    { SdkRequest(build, ua, api, originOk, os) :
        build \in SdkBuilds, ua \in UserAgents, api \in ApiOutcomes,
        originOk \in BOOLEAN, os \in SiteStatuses }

\* res.ok
ok(status) == status >= 200 /\ status <= 299

\* NextResponse.next(): the request continues to the site; the crawler gets
\* the site's own response
next(os) == Resp(os, "-", OriginHtml, "-")

\* fetchOriginWithForced200: the site's body as a 200, or the placeholder
fetchOriginWithForced200(originOk, os) ==
    IF originOk THEN Resp(200, "fallback", OriginHtml, os)
    ELSE Resp(200, "error", Placeholder, "unavailable")

\* the body of the API's 200 response
apiBody(api) == IF api.rosetta = "fallback" THEN OriginHtml ELSE MdA

\* middleware of packages/vercel/index.ts
middleware(rq) ==
    IF ~isAIBot(rq.ua) THEN next(rq.os)
    ELSE IF rq.api.kind # "response" THEN next(rq.os)
    ELSE IF ~ok(rq.api.status) THEN next(rq.os)
    ELSE Resp(200, rq.api.rosetta, apiBody(rq.api), "-")

\* middleware of part_003
middlewareForced200(rq) ==
    IF ~isAIBot(rq.ua) THEN next(rq.os)
    ELSE IF rq.api.kind # "response" THEN fetchOriginWithForced200(rq.originOk, rq.os)
    ELSE IF ~ok(rq.api.status) THEN fetchOriginWithForced200(rq.originOk, rq.os)
    ELSE Resp(200, rq.api.rosetta, apiBody(rq.api), "-")

SdkReceive ==
    /\ sdkIn = NoSdkRequest
    /\ sdkIn' \in SdkInputs
    /\ UNCHANGED <<sdkOut, exceptSdk>>

SdkMiddleware ==
    /\ sdkIn.build = "packages/vercel/index.ts" /\ sdkOut = NoResp
    /\ sdkOut' = middleware(sdkIn)
    /\ UNCHANGED <<sdkIn, exceptSdk>>

SdkMiddlewareForced200 ==
    /\ sdkIn.build = "part_003" /\ sdkOut = NoResp
    /\ sdkOut' = middlewareForced200(sdkIn)
    /\ UNCHANGED <<sdkIn, exceptSdk>>

NextSdk ==
    \/ SdkReceive
    \/ SdkMiddleware
    \/ SdkMiddlewareForced200

\* one request through the middleware of a site
SpecSdk == Init /\ [][NextSdk]_vars

\* ------------------------------------------------------------ cache keys
exceptCanon == <<cacheVars, gateVars, scrapeVars, crawlVars, sdkVars, botVars, usageVars, lateVars>>

CANON_VERSION == "v1"
TRACKING_PARAMS == {"utm_source", "ref"}

\* the longest query followed
MaxParams == 3

Pair(name, eq, value) == [name |-> name, eq |-> eq, value |-> value]

\* pairs as written in a query: a name twice with different values, a
\* percent-encoded value, a name without "=", a tracking name plain and
\* percent-encoded
RawPairs ==
    { Pair("a", TRUE, "1"), Pair("a", TRUE, "2"), Pair("b", TRUE, "x%20y"),
      Pair("c", FALSE, ""), Pair("utm_source", TRUE, "t"),
      Pair("utm%5Fsource", TRUE, "t") }

Hosts == {"example.com", "Example.COM"}
Fragments == {"", "#top"}

Queries == UNION { [1..n -> RawPairs] : n \in 0..MaxParams }
Urls == { Url(host, query, hash) : host \in Hosts, query \in Queries, hash \in Fragments }

\* String.prototype.toLowerCase on the hostname
toLowerCase(host) == IF host = "Example.COM" THEN "example.com" ELSE host

\* application/x-www-form-urlencoded: percent-decoding ("+" is a space) of
\* a name or value when searchParams parses the query, and its encoding
\* when searchParams writes the query back
decode(t) ==
    CASE t = "utm%5Fsource" -> "utm_source"
      [] t = "x%20y" -> "x y"
      [] t = "x+y" -> "x y"
      [] OTHER -> t
encode(t) == IF t = "x y" THEN "x+y" ELSE t

\* url.searchParams: the list of decoded name-value pairs
searchParams(query) ==
    [i \in 1..Len(query) |->
        [name |-> decode(query[i].name),
         value |-> IF query[i].eq THEN decode(query[i].value) ELSE ""]]

\* the query written back from the list
serialize(params) ==
    [i \in 1..Len(params) |->
        Pair(encode(params[i].name), TRUE, encode(params[i].value))]

\* order of names by code units
nameOrder(name) ==
    CASE name = "a" -> 1 [] name = "b" -> 2 [] name = "c" -> 3
      [] name = "ref" -> 4 [] name = "utm_source" -> 5 [] OTHER -> 6

RECURSIVE sort(_)
\* searchParams.sort(): by name, pairs of one name keep their order
sort(params) ==
    IF params = <<>> THEN <<>>
    ELSE LET n == Len(params)
             front == sort(SubSeq(params, 1, n - 1))
             last == params[n]
             k == Cardinality({i \in 1..(n - 1) :
                     nameOrder(front[i].name) <= nameOrder(last.name)})
         IN  SubSeq(front, 1, k) \o <<last>> \o SubSeq(front, k + 1, n - 1)

RECURSIVE filter(_, _)
\* searchParams.delete(param) for each param of dropped: the remaining
\* entries, in order
filter(s, dropped) ==
    IF s = <<>> THEN <<>>
    ELSE IF s[1].name \in dropped THEN filter(Tail(s), dropped)
    ELSE <<s[1]>> \o filter(Tail(s), dropped)

\* variant: tracking names are matched against the query as written
canonicalize_DeleteRaw(u) ==
    LET kept == filter(u.query, TRACKING_PARAMS)
    IN  Url(toLowerCase(u.host), serialize(sort(searchParams(kept))), "")

\* canonicalize: no fragment, lowercase host, tracking parameters deleted,
\* the rest sorted; the result is the URL written back
canonicalize(u) ==
    LET kept == filter(searchParams(u.query), TRACKING_PARAMS)
    IN  Url(toLowerCase(u.host), serialize(sort(kept)), "")

\* sha256(`${CANON_VERSION}:${canonical}`): equal exactly for equal input
fingerprint(u) == <<CANON_VERSION, canonicalize(u)>>

\* a target URL is given
GiveUrl ==
    /\ urlA = NoUrl
    /\ \E u \in Urls : urlA' = u /\ urlB' = u
    /\ fpA' = fingerprint(urlA')
    /\ fpB' = fingerprint(urlB')
    /\ UNCHANGED exceptCanon

Respell(u) ==
    /\ urlA # NoUrl
    /\ urlB' = u
    /\ fpB' = fingerprint(u)
    /\ UNCHANGED <<urlA, fpA, exceptCanon>>

\* the same URL with another fragment
OtherFragment ==
    \E hash \in Fragments \ {urlB.hash} : Respell([urlB EXCEPT !.hash = hash])

\* the same URL with the host in another letter case
OtherHostCase ==
    \E host \in Hosts \ {urlB.host} : Respell([urlB EXCEPT !.host = host])

isTrackingPair(pair) == decode(pair.name) \in TRACKING_PARAMS

\* the same URL with one more tracking parameter
AddTracking ==
    /\ Len(urlB.query) < MaxParams
    /\ \E pair \in {q \in RawPairs : isTrackingPair(q)}, i \in 0..Len(urlB.query) :
          Respell([urlB EXCEPT !.query =
                     SubSeq(urlB.query, 1, i) \o <<pair>> \o
                     SubSeq(urlB.query, i + 1, Len(urlB.query))])

\* the same URL with one tracking parameter less
DropTracking ==
    \E i \in 1..Len(urlB.query) :
        /\ isTrackingPair(urlB.query[i])
        /\ Respell([urlB EXCEPT !.query =
                      SubSeq(urlB.query, 1, i - 1) \o
                      SubSeq(urlB.query, i + 1, Len(urlB.query))])

\* the same URL with two neighbouring parameters exchanged
Reorder ==
    \E i \in 1..(Len(urlB.query) - 1) :
        Respell([urlB EXCEPT !.query =
                   [k \in 1..Len(urlB.query) |->
                       IF k = i THEN urlB.query[i + 1]
                       ELSE IF k = i + 1 THEN urlB.query[i]
                       ELSE urlB.query[k]]])

NextCanon ==
    \/ GiveUrl
    \/ OtherFragment
    \/ OtherHostCase
    \/ AddTracking
    \/ DropTracking
    \/ Reorder

\* the fingerprints of a URL and of its other spellings
SpecCanon == Init /\ [][NextCanon]_vars

\* ----------------------------------------------------- bot classification
exceptBot == <<cacheVars, gateVars, scrapeVars, crawlVars, sdkVars, canonVars, usageVars, lateVars>>

\* User-Agent strings, word by word as sent; Absent is the missing header
UaStrings ==
    { Absent, <<"Mozilla", "Chrome">>, <<"Mozilla", "GPTBot">>, <<"claudebot">>,
      <<"MyCrawler">>, <<"Mozilla", "ClaudeBot", "MyCrawler">> }

\* bot_overrides of a customer
BotConfigs ==
    { BotConfig(include, exclude) :
        include \in SUBSET {"MyCrawler", "chrome"},
        exclude \in SUBSET {"GPTBot", "claudebot", "mycrawler"} }

\* String.prototype.toLowerCase, word by word
lowerWord(w) ==
    CASE w = "Mozilla" -> "mozilla" [] w = "Chrome" -> "chrome"
      [] w = "GPTBot" -> "gptbot" [] w = "ClaudeBot" -> "claudebot"
      [] w = "MyCrawler" -> "mycrawler" [] OTHER -> w
lower(ua) == [i \in 1..Len(ua) |-> lowerWord(ua[i])]

\* variant: the include list is consulted before the exclude list
isAIBotFor_IncludeFirst(ua, customerConfig) ==
    IF ua = Absent THEN FALSE
    ELSE IF \E bot \in customerConfig.include : includes(lower(ua), lowerWord(bot))
    THEN TRUE
    ELSE IF \E bot \in customerConfig.exclude : includes(lower(ua), lowerWord(bot))
    THEN FALSE
    ELSE \E bot \in AI_BOTS : includes(lower(ua), lowerWord(bot))

\* isAIBot(ua, customerConfig)
isAIBotFor(ua, customerConfig) ==
    IF ua = Absent THEN FALSE
    ELSE IF \E bot \in customerConfig.exclude : includes(lower(ua), lowerWord(bot))
    THEN FALSE
    ELSE LET allBots == AI_BOTS \cup customerConfig.include
         IN  \E bot \in allBots : includes(lower(ua), lowerWord(bot))

\* a User-Agent arrives for a customer
BotAsk ==
    /\ botOut = "none" /\ botIn = NoBotInput
    /\ \E ua \in UaStrings, config \in BotConfigs :
          botIn' = [ua |-> ua, config |-> config]
    /\ UNCHANGED <<botOut, exceptBot>>

\* isAIBot returns
BotClassify ==
    /\ botIn # NoBotInput /\ botOut = "none"
    /\ botOut' = (IF isAIBotFor(botIn.ua, botIn.config) THEN "bot" ELSE "notBot")
    /\ UNCHANGED <<botIn, exceptBot>>

NextBot ==
    \/ BotAsk
    \/ BotClassify

\* isAIBot over User-Agents and customer overrides
SpecBot == Init /\ [][NextBot]_vars

\* ------------------------------- detached tasks of a successful /render
exceptUsage == <<cacheVars, gateVars, scrapeVars, otherVars, lateVars>>

\* incrementUsage: `await env.ROSETTA_CACHE.get(key) || '0'`; a rejection
\* is caught by the function's try and ends it
UsageGet(r) ==
    /\ usageTask[r] = "issued"
    /\ IF kvUp
       THEN /\ usageRead' = [usageRead EXCEPT ![r] = usage]
            /\ usageTask' = [usageTask EXCEPT ![r] = "read"]
       ELSE /\ usageTask' = [usageTask EXCEPT ![r] = "done"]
            /\ UNCHANGED usageRead
    /\ UNCHANGED <<usage, sideInflight, sideFailed, exceptUsage>>

\* incrementUsage: put(key, (current + 1).toString(), ...)
UsagePut(r) ==
    /\ usageTask[r] = "read"
    /\ usage' = kvPut(usage, usageRead[r] + 1)
    /\ usageTask' = [usageTask EXCEPT ![r] = "done"]
    /\ UNCHANGED <<usageRead, sideInflight, sideFailed, exceptUsage>>

\* expirationTtl: 86400 * 90 of the usage key
ExpireUsage ==
    /\ usage > 0
    /\ usage' = 0
    /\ UNCHANGED <<usageTask, usageRead, sideInflight, sideFailed, exceptUsage>>

\* "extras", the puts of the html and token-count entries that
\* cacheExtractedContent issues after the markdown put, or "metrics", the
\* sendTokenMetrics callback, settles; a rejection (the store down, the
\* dashboard not answering) goes to the task's own catch
SideEffect(r) ==
    /\ \E task \in sideInflight[r], metricsOk \in BOOLEAN :
        /\ sideInflight' = [sideInflight EXCEPT ![r] = @ \ {task}]
        /\ sideFailed' = [sideFailed EXCEPT ![r] =
              IF (task = "metrics" /\ ~metricsOk) \/ (task # "metrics" /\ ~kvUp)
              THEN @ \cup {task} ELSE @]
    /\ UNCHANGED <<usage, usageTask, usageRead, exceptUsage>>

NextRender ==
    \/ \E r \in Reqs : ArriveRender(r)
    \/ \E r \in Reqs : CacheGet(r)
    \/ \E r \in Reqs : PendingGet(r)
    \/ \E r \in Reqs : Poll(r)
    \/ \E r \in Reqs : PendingPut(r)
    \/ \E r \in Reqs : ScrapeResolveRender(r)
    \/ \E r \in Reqs : FetchFallback(r)
    \/ \E r \in Reqs : MdWriteBack(r)
    \/ \E r \in Reqs : PendingDelete(r)
    \/ \E r \in Reqs : UsageGet(r)
    \/ \E r \in Reqs : UsagePut(r)
    \/ \E r \in Reqs : SideEffect(r)
    \/ StoreFails
    \/ StoreRecovers
    \/ ExpirePending
    \/ ExpireMd
    \/ ExpireUsage

\* GET /render with every detached task of its success path
SpecRender == Init /\ [][NextRender]_vars

\* ------------------------------------------------- expiry of the marker
\* Both pipelines, with the store honouring the expirationTtl that every
\* put of the marker carries (PENDING_TTL, lines 725 and 886): a stored
\* marker does not outlive its TTL.  Nothing else is assumed to make
\* progress: a handler may stall, a detached delete may never settle.
SpecExpiry == Init /\ [][Next]_vars /\ WF_vars(ExpirePending)

\* ------------------------------------------- dashboard: tokens and domains
exceptDash == <<cacheVars, gateVars, scrapeVars, otherVars, usageVars, jobVars>>

MaxDashTokens == 2

\* what a customer types into the domain field
FormDomains == {"a.example", "https://www.B.example/"}

\* submitCompanyInfo's normalizeHostname: protocol and trailing slash
\* removed, lowercased, leading "www." removed
normalizeHostname(hostname) ==
    IF hostname = "https://www.B.example/" THEN "b.example" ELSE hostname

\* hostname.toLowerCase().replace(/^www\./, "")
normalizeDomain(hostname) ==
    CASE hostname = "www.b.example" -> "b.example"
      [] hostname = "B.example" -> "b.example"
      [] OTHER -> hostname
normalizeDomains(domains) == {normalizeDomain(d) : d \in domains}

\* prisma.apiToken.count({where: {customerId, revokedAt: null}}) counts these
ActiveTokens == {t \in TokenIds : dbTokens[t] = "active"}

\* what kv.put does at each attempt of kvPutWithRetry: TRUE resolves
PutOutcomes == [1..PutAttempts -> BOOLEAN]

\* TRUE: some attempt resolved and the function returned; FALSE: it threw
kvPutWithRetry(attempts) == \E attempt \in 1..PutAttempts : attempts[attempt]

SetOp(p, o) == ops' = [ops EXCEPT ![p] = o]
EndOp(p) == SetOp(p, NoOp)

\* POST /api/tokens: customer.findUnique({include: {domains: true}}), 400
\* when the customer has no domain, then createApiTokenForCustomer
CreateRoute(p) ==
    /\ ops[p] = NoOp
    /\ dbDomains # {}
    /\ SetOp(p, [NoOp EXCEPT !.kind = "create", !.pc = "count", !.domains = dbDomains])
    /\ UNCHANGED <<dbTokens, dbDomains, kvAuth, kvCustomer, revokeReturned, createFailed,
                   syncThrew, exceptDash>>

\* createApiTokenForCustomer: prisma.apiToken.count, then the limit test
CreateCount(p) ==
    /\ ops[p].kind = "create" /\ ops[p].pc = "count"
    /\ LET activeCount == Cardinality(ActiveTokens)
       IN  IF activeCount >= MAX_ACTIVE_TOKENS
           THEN EndOp(p)
           ELSE SetOp(p, [ops[p] EXCEPT !.pc = "row", !.count = activeCount])
    /\ UNCHANGED <<dbTokens, dbDomains, kvAuth, kvCustomer, revokeReturned, createFailed,
                   syncThrew, exceptDash>>

\* createApiTokenForCustomer: prisma.apiToken.create of a fresh token
CreateRow(p) ==
    /\ ops[p].kind = "create" /\ ops[p].pc = "row"
    /\ \E t \in TokenIds :
        /\ dbTokens[t] = "none"
        /\ \A u \in 1..(t - 1) : dbTokens[u] # "none"
        /\ dbTokens' = [dbTokens EXCEPT ![t] = "active"]
        /\ SetOp(p, [ops[p] EXCEPT !.pc = "putToken", !.token = t])
    /\ UNCHANGED <<dbDomains, kvAuth, kvCustomer, revokeReturned, createFailed,
                   syncThrew, exceptDash>>

\* createApiTokenForCustomer: kvPutWithRetry(`apikeyhash:${tokenHash}`, payload)
CreatePutToken(p) ==
    /\ ops[p].kind = "create" /\ ops[p].pc = "putToken"
    /\ \E attempts \in PutOutcomes :
          IF kvPutWithRetry(attempts)
          THEN /\ kvAuth' = [kvAuth EXCEPT ![ops[p].token] =
                                Config(normalizeDomains(ops[p].domains))]
               /\ SetOp(p, [ops[p] EXCEPT !.pc = "putCustomer"])
          ELSE /\ UNCHANGED kvAuth
               /\ SetOp(p, [ops[p] EXCEPT !.pc = "compensate"])
    /\ UNCHANGED <<dbTokens, dbDomains, kvCustomer, revokeReturned, createFailed,
                   syncThrew, exceptDash>>

\* createApiTokenForCustomer: kvPutWithRetry(`customer:${customerId}`,
\* payload), then `return { token, prefix }`
CreatePutCustomer(p) ==
    /\ ops[p].kind = "create" /\ ops[p].pc = "putCustomer"
    /\ \E attempts \in PutOutcomes :
          IF kvPutWithRetry(attempts)
          THEN /\ kvCustomer' = Config(normalizeDomains(ops[p].domains))
               /\ EndOp(p)
          ELSE /\ UNCHANGED kvCustomer
               /\ SetOp(p, [ops[p] EXCEPT !.pc = "compensate"])
    /\ UNCHANGED <<dbTokens, dbDomains, kvAuth, revokeReturned, createFailed,
                   syncThrew, exceptDash>>

\* createApiTokenForCustomer, catch: prisma.apiToken.delete of the row,
\* then throw "Failed to provision token"
CreateCompensate(p) ==
    /\ ops[p].kind = "create" /\ ops[p].pc = "compensate"
    /\ dbTokens' = [dbTokens EXCEPT ![ops[p].token] = "deleted"]
    /\ createFailed' = createFailed \cup {ops[p].token}
    /\ EndOp(p)
    /\ UNCHANGED <<dbDomains, kvAuth, kvCustomer, revokeReturned, syncThrew, exceptDash>>

\* revokeApiToken: prisma.apiToken.findFirst({id, customerId, revokedAt:
\* null}); a token that is not found throws and changes nothing
RevokeFind(p, t) ==
    /\ ops[p] = NoOp
    /\ dbTokens[t] = "active"
    /\ SetOp(p, [NoOp EXCEPT !.kind = "revoke", !.pc = "update", !.token = t])
    /\ UNCHANGED <<dbTokens, dbDomains, kvAuth, kvCustomer, revokeReturned, createFailed,
                   syncThrew, exceptDash>>

\* revokeApiToken: prisma.apiToken.update({data: {revokedAt}}), which
\* throws when the row is gone
RevokeUpdate(p) ==
    /\ ops[p].kind = "revoke" /\ ops[p].pc = "update"
    /\ IF dbTokens[ops[p].token] = "deleted"
       THEN /\ EndOp(p)
            /\ UNCHANGED dbTokens
       ELSE /\ dbTokens' = [dbTokens EXCEPT ![ops[p].token] = "revoked"]
            /\ SetOp(p, [ops[p] EXCEPT !.pc = "kvDelete"])
    /\ UNCHANGED <<dbDomains, kvAuth, kvCustomer, revokeReturned, createFailed,
                   syncThrew, exceptDash>>

\* revokeApiToken: kv.delete(`apikeyhash:${token.tokenHash}`) inside
\* try/catch (a failure is logged), then the function returns
RevokeKvDelete(p) ==
    /\ ops[p].kind = "revoke" /\ ops[p].pc = "kvDelete"
    /\ \E deleted \in BOOLEAN :
          kvAuth' = [kvAuth EXCEPT ![ops[p].token] = IF deleted THEN NoConfig ELSE @]
    /\ revokeReturned' = revokeReturned \cup {ops[p].token}
    /\ EndOp(p)
    /\ UNCHANGED <<dbTokens, dbDomains, kvCustomer, createFailed, syncThrew, exceptDash>>

\* syncCustomerAuthToKV: prisma.customer.findUnique({include: {domains,
\* apiTokens: {where: {revokedAt: null}}}})
findCustomer(p, kind) ==
    SetOp(p, [NoOp EXCEPT !.kind = kind, !.pc = "putCustomer",
                          !.domains = dbDomains, !.tokens = ActiveTokens])

\* a caller other than submitCompanyInfo runs syncCustomerAuthToKV for an
\* existing customer
SyncCall(p) ==
    /\ ops[p] = NoOp
    /\ dbDomains # {}
    /\ findCustomer(p, "sync")
    /\ UNCHANGED <<dbTokens, dbDomains, kvAuth, kvCustomer, revokeReturned, createFailed,
                   syncThrew, exceptDash>>

\* submitCompanyInfo: the transaction that upserts the customer and the
\* Domain row
SubmitDomain(p, domain) ==
    /\ ops[p] = NoOp
    /\ dbDomains' = dbDomains \cup {normalizeHostname(domain)}
    /\ SetOp(p, [NoOp EXCEPT !.kind = "submit", !.pc = "syncRead"])
    /\ UNCHANGED <<dbTokens, kvAuth, kvCustomer, revokeReturned, createFailed,
                   syncThrew, exceptDash>>

\* submitCompanyInfo: `await syncCustomerAuthToKV(customerId)`, its read
SyncRead(p) ==
    /\ ops[p].kind = "submit" /\ ops[p].pc = "syncRead"
    /\ findCustomer(p, "submit")
    /\ UNCHANGED <<dbTokens, dbDomains, kvAuth, kvCustomer, revokeReturned, createFailed,
                   syncThrew, exceptDash>>

\* syncCustomerAuthToKV: kvPutWithRetry(`customer:${customerId}`, payload);
\* when it throws the function throws (submitCompanyInfo logs it)
SyncPutCustomer(p) ==
    /\ ops[p].kind \in {"sync", "submit"} /\ ops[p].pc = "putCustomer"
    /\ \E attempts \in PutOutcomes :
          IF kvPutWithRetry(attempts)
          THEN /\ kvCustomer' = Config(normalizeDomains(ops[p].domains))
               /\ IF ops[p].tokens = {} THEN EndOp(p)
                                        ELSE SetOp(p, [ops[p] EXCEPT !.pc = "putTokens"])
               /\ UNCHANGED syncThrew
          ELSE /\ UNCHANGED kvCustomer
               /\ syncThrew' = TRUE
               /\ EndOp(p)
    /\ UNCHANGED <<dbTokens, dbDomains, kvAuth, revokeReturned, createFailed, exceptDash>>

\* syncCustomerAuthToKV: one kvPutWithRetry(`apikeyhash:${t.tokenHash}`,
\* payload) of the Promise.all settles; the puts were all started and
\* settle in any order, a rejected one does not stop the others
SyncPutToken(p, t) ==
    /\ ops[p].kind \in {"sync", "submit"} /\ ops[p].pc = "putTokens"
    /\ t \in ops[p].tokens
    /\ \E attempts \in PutOutcomes :
          IF kvPutWithRetry(attempts)
          THEN /\ kvAuth' = [kvAuth EXCEPT ![t] = Config(normalizeDomains(ops[p].domains))]
               /\ UNCHANGED syncThrew
          ELSE /\ UNCHANGED kvAuth
               /\ syncThrew' = TRUE
    /\ IF ops[p].tokens = {t} THEN EndOp(p)
                              ELSE SetOp(p, [ops[p] EXCEPT !.tokens = @ \ {t}])
    /\ UNCHANGED <<dbTokens, dbDomains, kvCustomer, revokeReturned, createFailed, exceptDash>>

\* tokens minted or about to be
Minting ==
    Cardinality({t \in TokenIds : dbTokens[t] # "none"})
    + Cardinality({p \in Procs : ops[p].kind = "create" /\ ops[p].token = 0})

Quiet == \A p \in Procs : ops[p] = NoOp

\* every dashboard operation, in any interleaving, for a customer who
\* mints at most MaxDashTokens tokens
NextDash ==
    \/ \E p \in Procs : Minting < MaxDashTokens /\ CreateRoute(p)
    \/ \E p \in Procs : CreateCount(p)
    \/ \E p \in Procs : CreateRow(p)
    \/ \E p \in Procs : CreatePutToken(p)
    \/ \E p \in Procs : CreatePutCustomer(p)
    \/ \E p \in Procs : CreateCompensate(p)
    \/ \E p \in Procs, t \in TokenIds : RevokeFind(p, t)
    \/ \E p \in Procs : RevokeUpdate(p)
    \/ \E p \in Procs : RevokeKvDelete(p)
    \/ \E p \in Procs : SyncCall(p)
    \/ \E p \in Procs, d \in FormDomains : SubmitDomain(p, d)
    \/ \E p \in Procs : SyncRead(p)
    \/ \E p \in Procs : SyncPutCustomer(p)
    \/ \E p \in Procs, t \in TokenIds : SyncPutToken(p, t)

SpecDash == Init /\ [][NextDash]_vars

MoreFormDomains == FormDomains \cup {"c.example"}

\* submitCompanyInfo adding a domain the customer does not have yet, from
\* concurrent requests; tokens are minted while nothing else runs
NextSync ==
    \/ \E p \in Procs : Quiet /\ Minting < MaxDashTokens /\ CreateRoute(p)
    \/ \E p \in Procs : CreateCount(p)
    \/ \E p \in Procs : CreateRow(p)
    \/ \E p \in Procs : CreatePutToken(p)
    \/ \E p \in Procs : CreatePutCustomer(p)
    \/ \E p \in Procs : CreateCompensate(p)
    \/ \E p \in Procs, d \in MoreFormDomains :
          /\ \A q \in Procs : ops[q].kind # "create"
          /\ normalizeHostname(d) \notin dbDomains
          /\ SubmitDomain(p, d)
    \/ \E p \in Procs : SyncRead(p)
    \/ \E p \in Procs : SyncPutCustomer(p)
    \/ \E p \in Procs, t \in TokenIds : SyncPutToken(p, t)

SpecSync == Init /\ [][NextSync]_vars

\* a customer with one domain who mints tokens, from concurrent requests
NextTokens ==
    \/ \E p \in Procs, d \in FormDomains : dbDomains = {} /\ SubmitDomain(p, d)
    \/ \E p \in Procs : SyncRead(p)
    \/ \E p \in Procs : SyncPutCustomer(p)
    \/ \E p \in Procs : CreateRoute(p)
    \/ \E p \in Procs : CreateCount(p)
    \/ \E p \in Procs : CreateRow(p)
    \/ \E p \in Procs : CreatePutToken(p)
    \/ \E p \in Procs : CreatePutCustomer(p)
    \/ \E p \in Procs : CreateCompensate(p)

SpecTokens == Init /\ [][NextTokens]_vars

\* ------------------------------------------ crawl jobs and their tenants
exceptJob == <<cacheVars, gateVars, scrapeVars, sdkVars, canonVars, botVars, usageVars,
               dashVars>>

Tenants == {Tenant, "cust2", "cust3"}

\* handleCrawlStart of a tenant, mode 'full', past its checks: the POST to
\* the backend creates the job and returns its id
JobStart(customerId) ==
    /\ crawlOwner = "-"
    /\ crawlOwner' = customerId
    /\ crawlMetaDue' = TRUE
    /\ UNCHANGED <<crawlMeta, crawlCached, crawlResp, crawlCaller, exceptJob>>

\* handleCrawlStart: put of crawl::<id> with the customerId; a rejected put
\* goes to the catch (500) and leaves no record
JobMetaPut ==
    /\ crawlMetaDue
    /\ crawlMetaDue' = FALSE
    /\ \E stored \in BOOLEAN, cacheResults \in BOOLEAN :
          crawlMeta' = IF stored THEN Meta(crawlOwner, cacheResults, CustomerDomains)
                                 ELSE crawlMeta
    /\ UNCHANGED <<crawlOwner, crawlCached, crawlResp, crawlCaller, exceptJob>>

\* handleCrawlStatus for the job's id, called with a valid token of a
\* tenant: ownership test on the record when there is one, the poll of the
\* backend, the write-back of a completed crawl's pages (the record is put
\* again with the same customerId)
JobStatus(customerId) ==
    /\ crawlOwner # "-"
    /\ \E backend \in {"500", "scraping", "completed"}, data \in CrawlData :
        LET st == IF crawlMeta # NoMeta /\ crawlMeta.customerId # customerId THEN 404
                  ELSE IF backend = "500" THEN 500
                  ELSE 200
        IN  /\ crawlResp' = st
            /\ crawlCached' =
                 (IF st = 200 /\ backend = "completed" /\ crawlMeta # NoMeta
                     /\ crawlMeta.cacheResults
                  THEN crawlCached \cup cachedPages(crawlMeta, data)
                  ELSE crawlCached)
    /\ crawlCaller' = customerId
    /\ UNCHANGED <<crawlMeta, crawlOwner, crawlMetaDue, exceptJob>>

NextJob ==
    \/ \E customerId \in Tenants : JobStart(customerId)
    \/ JobMetaPut
    \/ ExpireMeta
    \/ \E customerId \in Tenants : JobStatus(customerId)

\* one crawl job, polled by its tenant and by another
SpecJob == Init /\ [][NextJob]_vars

\* the request has been answered
Answered == inb # NoRequest /\ gresp # NoResp

TypeOK ==
    /\ kvUp \in BOOLEAN
    /\ kvMd \in {Absent, MdA, MdB}
    /\ kvPending \in {NoMarker} \cup Reqs
    /\ \A r \in Reqs :
          /\ polls[r] \in 0..(PollAttempts - 1)
          /\ mode[r] \in {"none", "api", "proxy"}
          /\ mdTask[r] \in {"none", "inflight", "done"}
          /\ delInflight[r] \in 0..delIssued[r]
          /\ usageTask[r] \in {"none", "issued", "read", "done"}
          /\ usageRead[r] \in 0..NumReqs
          /\ sideFailed[r] \cap sideInflight[r] = {}
    /\ usage \in 0..NumReqs

\* ------------------------------------------------------------ vocabulary
Done(r) == pc[r] = "done"
IsHit(r) == resp[r].rosetta \in {"hit", "HIT"}
IsMiss(r) == resp[r].rosetta \in {"miss", "MISS (Rendered)"}
IsFallback(r) == resp[r].rosetta \in {"fallback", "error", "FAIL (Fallback)"}

\* r went past the cache check without a value
Missed(r) ==
    /\ pc[r] \notin {"idle", "cacheGet"}
    /\ ~(Done(r) /\ IsHit(r) /\ ~sawPending[r])

\* r found the marker and left the poll loop without a value
Exhausted(r) ==
    /\ sawPending[r]
    /\ pc[r] # "poll"
    /\ ~(Done(r) /\ IsHit(r))

\* ----------------------------------------------------------------- claims

\* C1: concurrent requests that miss the cache for one fingerprint invoke
\* the extraction backend once: no two of them both call scrapeWithTimeout.
C1_SingleExtraction ==
    \A r1, r2 \in Reqs :
        (r1 # r2 /\ Missed(r1) /\ Missed(r2)) => ~(invoked[r1] > 0 /\ invoked[r2] > 0)

\* C2: a proxied AI-bot request is answered 200 under extraction timeout,
\* extraction backend error and store failure (the origin answering, no
\* exception raised by the handler's own code).
C2_ProxyBotAlways200 ==
    \A r \in Reqs :
        (Done(r) /\ mode[r] = "proxy" /\ resp[r].cause = "-") => resp[r].status = 200

C2_Witness ==
    \E r \in Reqs :
        /\ Done(r) /\ mode[r] = "proxy"
        /\ resp[r] = Resp(200, "FAIL (Fallback)", OriginHtml, 503)
        /\ ~kvUp

\* C3: a GET /render that passed credential resolution and URL validation
\* is answered 200 whatever the cache, the lease, the extraction backend and
\* the origin do; with the origin unreachable it is the 200 placeholder.
C3_RenderAlways200 ==
    \A r \in Reqs :
        (Done(r) /\ mode[r] = "api") =>
            /\ resp[r].status = 200
            /\ resp[r].cause = "-"
            /\ IsHit(r) \/ IsMiss(r) \/ IsFallback(r)

C3_Witness ==
    \E r \in Reqs :
        /\ Done(r) /\ mode[r] = "api"
        /\ resp[r] = Resp(200, "error", Placeholder, "unavailable")

\* C4: in proxy mode, when extraction fails and the fallback fetch of the
\* origin fails too, the crawler still gets a 200 carrying an error
\* indicator: no exception leaves handleProxyMode.
C4_ProxyOriginDown200 ==
    \A r \in Reqs :
        (Done(r) /\ mode[r] = "proxy" /\ invoked[r] > 0 /\ ~IsMiss(r)
                 /\ resp[r].cause # "throw") =>
            /\ resp[r].status = 200
            /\ resp[r].cause = "-"

\* C5: the wait on a held lease is a fixed cap: the poll loop reads the
\* cache at most PollAttempts times, every step of a request strictly
\* lowers a rank that starts at PollAttempts + 6, and a request that has not
\* answered always has a step to take, whatever the others and the store do.
Rank(r) ==
    CASE pc[r] = "cacheGet" -> PollAttempts + 6
      [] pc[r] = "pendingGet" -> PollAttempts + 5
      [] pc[r] = "poll" -> 4 + (PollAttempts - polls[r])
      [] pc[r] = "pendingPut" -> 3
      [] pc[r] = "scraping" -> 2
      [] pc[r] \in {"fetchFallback", "proxyFallback"} -> 1
      [] OTHER -> 0

Moved(r) == pc'[r] # pc[r] \/ polls'[r] # polls[r]

C5_BoundedWait ==
    /\ [](\A r \in Reqs :
            /\ polls[r] < PollAttempts
            /\ pc[r] \notin {"idle", "done"} => ENABLED Handle(r))
    /\ [][\A r \in Reqs :
            (pc[r] # "idle" /\ Moved(r)) => (Rank(r))' < Rank(r)]_vars

C5_Witness ==
    \E r \in Reqs :
        /\ sawPending[r] /\ mode[r] = "proxy"
        /\ Done(r) /\ resp[r].rosetta = "FAIL (Fallback)"

C7_LeaseReleased ==
    \A r \in Reqs :
        putIssued[r] > 0 => (pc[r] = "scraping" \/ delIssued[r] >= 1)

C7_Witness ==
    \E r, q \in Reqs :
        /\ putIssued[r] > 0 /\ Done(r) /\ resp[r].cause = "throw"
        /\ delIssued[r] >= 1
        /\ putIssued[q] > 0 /\ mode[q] = "api" /\ pc[q] = "fetchFallback"
        /\ delIssued[q] >= 1

\* C8: the marker is written only if none is present: no request writes
\* pending:<fingerprint> while a marker written by another request is stored.
C8_WriteOnlyIfAbsent ==
    [][\A r \in Reqs :
          (putIssued'[r] > putIssued[r] /\ kvPending' = r) =>
              kvPending \in {NoMarker, r}]_vars

Extracted == {mdValue[q] : q \in {x \in Reqs : mdTask[x] # "none"}}

C10_SecondIsHit ==
    \A r \in Reqs :
        (r + 1 \in Reqs /\ Done(r) /\ IsMiss(r) /\ Done(r + 1)) =>
            /\ resp[r + 1].status = 200
            /\ IsHit(r + 1)
            /\ resp[r + 1].body = resp[r].body

\* C10 amended: the write-back of the first response is detached; once the
\* store has taken it, the entry is byte-identical to that response, and a
\* later request whose cache read finds the entry answers 200 with a hit
\* indicator and that content.  Before that the next request can miss.
C10_HitOnceWritten ==
    [][\A r \in Reqs :
          /\ (mdTask[r] = "inflight" /\ mdTask'[r] = "done" /\ kvUp
                /\ Done(r) /\ IsMiss(r)) => kvMd' = resp[r].body
          /\ \A q \in Reqs :
                (Done(q) /\ IsMiss(q) /\ kvUp /\ kvMd = resp[q].body
                   /\ pc[r] = "cacheGet" /\ pc'[r] # "cacheGet") =>
                    /\ pc'[r] = "done"
                    /\ resp'[r].status = 200
                    /\ IsHit(r)'
                    /\ resp'[r].body = resp[q].body]_vars

C10_Witness ==
    \E r \in Reqs :
        /\ r + 1 \in Reqs
        /\ Done(r) /\ IsMiss(r) /\ ~sawPending[r] /\ mdTask[r] = "done"
        /\ Done(r + 1) /\ IsHit(r + 1) /\ ~sawPending[r + 1]
        /\ resp[r + 1].body = resp[r].body

NonMember == inb.target.kind = "url" /\ stripWww(inb.target.host) \notin CustomerDomains

\* the checks a handler makes before its allowlist test all passed
PassedBefore ==
    CASE inb.route = "/render" ->
            /\ inb.token # "absent" /\ gresp.status \notin {401, 503}
            /\ inb.target.scheme = "https:"
      [] inb.route = "/render/internal" ->
            /\ validateInternal(inb.auth, inb.customerId, inb.target) = 200
            /\ gresp.status \notin {404, 503}
      [] inb.route = "/_rosetta/crawl" ->
            inb.token # "absent" /\ gresp.status \notin {401, 503}
      [] OTHER -> FALSE

C13_NotAllowlisted403 ==
    (Answered /\ inb.route = "/render" /\ NonMember) => gresp.status = 403

\* C13 amended: such a request is answered 403 when its credential resolves
\* a tenant (from the hashed or the legacy store) and its URL is https; a
\* missing credential is answered 401 before any lookup, an unknown one
\* 401, a failed lookup 503, a URL that is not https 400; in every case
\* nothing is fetched.
C13_NotAllowlisted403IfResolved ==
    (Answered /\ inb.route = "/render" /\ NonMember) =>
        /\ outbound = {}
        /\ inb.token = "absent" => (gresp.status = 401 /\ kvLog = <<>>)
        /\ (inb.token # "absent" /\ inb.token \notin HashedStore \cup LegacyStore) =>
              gresp.status \in {401, 503}
        /\ inb.token \in HashedStore \cup LegacyStore =>
              gresp.status \in {IF inb.target.scheme = "https:" THEN 403 ELSE 400, 503}

C13_Witness ==
    /\ Answered /\ inb.route = "/render" /\ NonMember
    /\ inb.token = "tokLegacy"
    /\ gresp = jsonResponse(403)

\* C14: /render reads the hashed store first and the legacy store only when
\* the hashed one gave nothing; a record in either resolves the tenant,
\* none in both is 401, a failed read is 503 and no fallback.
C14_CredentialResolution ==
    (Answered /\ inb.route = "/render" /\ inb.token # "absent") =>
        /\ Len(kvLog) >= 1 /\ kvLog[1] = "apikeyhash:get"
        /\ (Len(kvLog) >= 2 /\ kvLog[2] = "apikey:get") => inb.token \notin HashedStore
        /\ (Len(kvLog) >= 2 /\ inb.token \in HashedStore) => kvLog[2] = "md:get"
        /\ inb.token \in HashedStore \cup LegacyStore => gresp.status # 401
        /\ inb.token \notin HashedStore \cup LegacyStore => gresp.status \in {401, 503}
        /\ gresp.status \in {401, 503} => (outbound = {} /\ gresp.rosetta = "-")
        /\ (inb.token \in LegacyStore \ HashedStore /\ gresp.status # 503) =>
              (Len(kvLog) >= 2 /\ kvLog[2] = "apikey:get")

C14_Witness ==
    /\ Answered /\ inb.route = "/render" /\ inb.token = "tokLegacy"
    /\ Len(kvLog) >= 3 /\ kvLog[2] = "apikey:get"
    /\ gresp.status = 200 /\ gresp.rosetta = "miss"

\* the request was answered from a fallback fetch of the origin
FellBack == \E c \in outbound : c.via \in {"fetchFallback", "proxyFallback"}

\* C18: every fallback response, in API mode and in proxy mode, is a 200
\* whose X-Rosetta-Origin-Status is the status the origin returned, or
\* 'unavailable' when the fetch failed, and whose X-Rosetta-Status says
\* fallback or error.
C18_FallbackHeaders ==
    (Answered /\ FellBack) =>
        /\ gresp.status = 200
        /\ gresp.rosetta \in {"fallback", "error", "FAIL (Fallback)"}
        /\ IF originSays.reached THEN gresp.origin = originSays.status
                                 ELSE gresp.origin = "unavailable"

\* C19: no request sent to an origin (pass-through, bot fallback, API
\* fallback, raw-HTML fetch) carries a header of the strip list, whatever
\* the inbound request carried.
C19_NoSensitiveHeaders ==
    \A c \in outbound : c.to = "origin" => c.headers \cap STRIP_HEADERS = {}

C19_Witness ==
    /\ Answered
    /\ {"x-rosetta-token", "authorization", "cf-connecting-ip"} \subseteq inb.headers
    /\ \E c \in outbound : c.via = "proxyFallback" /\ "user-agent" \in c.headers
    /\ \E c \in outbound : c.via = "rawHtml"

\* the ?target= parameter names an origin outside the list
OtherOrigin ==
    /\ inb.targetParam # Absent
    /\ parseURL(inb.targetParam).ok
    /\ parseURL(inb.targetParam).origin \notin ALLOWED_PROXY_ORIGINS

C15_HtmlEntryIsAbsent ==
    \A r \in Reqs :
        (Done(r) /\ resp[r].rosetta \in {"hit", "HIT", "content"}) =>
            ~isHTML(resp[r].body)

\* what the call met is one of the failures: the timer ended it, transport
\* error, non-OK status, a body that does not parse, a payload without
\* markdown, a markdown field that is HTML
ScrapeFailure ==
    \/ sRes.caught = "AbortError"
    \/ sOut.fetch = "rejects"
    \/ ~sOut.backendOk
    \/ sOut.json = "rejects"
    \/ sOut.md = Absent
    \/ isHTML(sOut.md)

\* C16: scrapeWithTimeout never throws to its caller: whatever the fetches
\* and the body reads do, a call that ends ends by returning, and after a
\* timeout, a non-OK status, a malformed payload, a transport error or an
\* HTML payload it returns null; without any of them it returns the
\* markdown.
C16_NeverThrows ==
    /\ ~sRes.thrown
    /\ (sPhase = "returned") = sRes.returned
    /\ sRes.returned =>
          sRes.value = (IF ScrapeFailure THEN Absent ELSE sOut.md)

\* a call whose fetches did not settle was ended by the timer with null
C16_Witness ==
    /\ sRes.returned
    /\ sOut.fetch = "hangs"
    /\ sClock >= EXTRACT_TIMEOUT_MS
    /\ sRes.caught = "AbortError"
    /\ sRes.value = Absent

\* C17: the budget bounds the whole call: at every suspension point of
\* the call (the fetches, reading the backend's body, reading the raw HTML
\* body) the abort timer is still armed, and no call is still suspended
\* after the budget has passed.
C17_TimerArmedWhileSuspended ==
    Suspended => (sArmed /\ sClock <= EXTRACT_TIMEOUT_MS)

\* the target is a URL that is not https, or names a private host
UnsafeTarget ==
    /\ inb.target.kind = "url"
    /\ (inb.target.scheme # "https:" \/ isPrivateHost(inb.target.host))

\* C21: GET /render, GET /render/internal and POST /_rosetta/crawl reject
\* a target URL that is not https or that names a private host: the request
\* is answered with an error status and no extraction call or origin fetch
\* was issued for it.
C21_UnsafeTargetRejected ==
    (Answered /\ inb.route \in {"/render", "/render/internal", "/_rosetta/crawl"}
       /\ UnsafeTarget) =>
        (outbound = {} /\ gresp.status >= 400)

C23_SdkBotAlways200 ==
    (sdkOut # NoResp /\ isAIBot(sdkIn.ua)) => sdkOut.status = 200

\* C24: URLs that differ only in fragment, in the presence of tracking
\* parameters, in the order of the query parameters or in the letter case
\* of the host have the same fingerprint, for every list of parameters,
\* those where a name occurs more than once included.
C24_SameFingerprint ==
    urlA # NoUrl => fpA = fpB

\* C25: canonicalize is idempotent: applied to the canonical URL of any
\* absolute URL it returns that canonical URL.
C25_Idempotent ==
    urlA # NoUrl =>
        /\ fpB[2] = canonicalize(urlB)
        /\ canonicalize(fpB[2]) = fpB[2]

\* a URL that canonicalize changes in every respect: fragment, host case,
\* a percent-encoded tracking name, an encoded value, parameters out of order
C25_Witness ==
    /\ urlB.hash # ""
    /\ urlB.host # toLowerCase(urlB.host)
    /\ \E i \in 1..Len(urlB.query) : urlB.query[i].name = "utm%5Fsource"
    /\ urlB.query # <<>> /\ urlB.query[1].name = "b"
    /\ Len(urlB.query) = MaxParams /\ urlB.query[MaxParams].name = "a"
    /\ canonicalize(fpB[2]) = fpB[2]
    /\ Len(fpB[2].query) = 2 /\ fpB[2].query[1].name = "a"

\* id is a case-insensitive substring of ua
InsensitiveIn(id, ua) ==
    \E i \in 1..Len(ua) : lowerWord(ua[i]) = lowerWord(id)

\* C26: isAIBot(ua, config) is true exactly when ua is present, no exclude
\* override is a case-insensitive substring of ua, and some entry of the
\* default list or of the include overrides is one; an exclude match gives
\* not-a-bot even for an identity of the default list or of include.
C26_BotExactly ==
    botOut # "none" =>
        ((botOut = "bot") <=>
            /\ botIn.ua # Absent
            /\ ~\E id \in botIn.config.exclude : InsensitiveIn(id, botIn.ua)
            /\ \E id \in AI_BOTS \cup botIn.config.include :
                  InsensitiveIn(id, botIn.ua))

\* a User-Agent naming a default bot and an included one, vetoed by an
\* exclude written in another letter case
C26_Witness ==
    /\ botOut = "notBot"
    /\ botIn.ua = <<"Mozilla", "ClaudeBot", "MyCrawler">>
    /\ botIn.config = BotConfig({"MyCrawler"}, {"mycrawler"})

\* the status of the first check of GET /render that fails, in the order
\* credential present, credential resolves, url present, URL parses,
\* https, hostname allowlisted, host not private; 200 when none fails
FirstFailing ==
    IF inb.token = "absent" THEN 401
    ELSE IF inb.token \notin HashedStore \cup LegacyStore THEN 401
    ELSE IF inb.target.kind = "missing" THEN 400
    ELSE IF inb.target.kind = "garbage" THEN 400
    ELSE IF inb.target.scheme # "https:" THEN 400
    ELSE IF stripWww(inb.target.host) \notin CustomerDomains THEN 403
    ELSE IF isPrivateHost(inb.target.host) THEN 400
    ELSE 200

\* C27: GET /render answers with the outcome of the first failing check in
\* that order (503 when the credential lookup itself fails), and a request
\* that fails a check causes no cache, lease, extraction or origin
\* operation: only the credential lookups were issued.
C27_FirstFailingCheck ==
    (Answered /\ inb.route = "/render") =>
        /\ gresp.status # 503 =>
              (IF FirstFailing = 200 THEN gresp.status = 200
               ELSE gresp = jsonResponse(FirstFailing))
        /\ gresp.status = 503 => inb.token # "absent"
        /\ (FirstFailing # 200 \/ gresp.status = 503) =>
              /\ outbound = {}
              /\ originSays = NoOrigin
              /\ \A i \in 1..Len(kvLog) : kvLog[i] \in {"apikeyhash:get", "apikey:get"}

\* a private-address literal outside the allowlist is answered 403
C27_Witness ==
    /\ Answered /\ inb.route = "/render"
    /\ inb.token = "tokHashed"
    /\ inb.target = [kind |-> "url", scheme |-> "https:", host |-> "127.0.0.1"]
    /\ gresp = jsonResponse(403)
    /\ kvLog = <<"apikeyhash:get">>

\* C28: after a successful extraction of GET /render the caller has 200,
\* the extracted content and the miss indicator, in every state: whatever
\* the detached tasks (write-back of markdown, HTML and token counts,
\* usage increment, marker delete, metrics callback) have done or failed to
\* do since.
C28_DetachedFailuresUnseen ==
    \A r \in Reqs :
        (mode[r] = "api" /\ mdValue[r] # Absent) =>
            /\ Done(r)
            /\ resp[r] = Resp(200, "miss", mdValue[r], "-")

\* every detached task of request 1 has settled and none took effect: the
\* entry was not written, the marker is still stored, nothing was counted,
\* the other puts and the metrics callback failed
C28_Witness ==
    /\ resp[1] = Resp(200, "miss", MdA, "-")
    /\ ~kvUp
    /\ mdTask[1] = "done" /\ kvMd = Absent
    /\ delInflight[1] = 0 /\ kvPending = 1
    /\ usageTask[1] = "done" /\ usage = 0
    /\ sideInflight[1] = {} /\ sideFailed[1] = {"extras", "metrics"}
    /\ pc[2] = "idle"

\* requests of GET /render answered from a successful extraction
Extractions == {r \in Reqs : mode[r] = "api" /\ Done(r) /\ resp[r].rosetta = "miss"}

\* C29: the usage counter never exceeds the number of successful
\* extractions GET /render performed: incrementUsage is called on the
\* extraction-success path only (not on a hit, a wait-then-hit, a fallback
\* or an error), and concurrent increments lose updates without ever
\* adding counts.
C29_UsageAtMostExtractions ==
    /\ usage <= Cardinality(Extractions)
    /\ \A r \in Reqs : usageTask[r] # "none" => r \in Extractions

\* two extractions counted once: both increments read 0 and wrote 1
C29_Witness ==
    /\ Cardinality(Extractions) = 2
    /\ \A r \in Reqs : usageTask[r] = "done" /\ usageRead[r] = 0
    /\ usage = 1

\* C30: every pending marker is eventually removed, by its writer's delete
\* or, when that delete fails or never runs, by the expiry of the TTL set
\* on every marker write: from any state in which the fingerprint is marked
\* as in flight a state is reached in which it is not, where the next
\* request reads no marker and goes on to extraction.
C30_MarkerEventuallyRemoved == (kvPending # NoMarker) ~> (kvPending = NoMarker)

\* the writer's delete has settled without effect and the writer has
\* answered: only the expiry can remove the marker
C30_Witness ==
    /\ kvPending = 1
    /\ Done(1)
    /\ delIssued[1] = 1 /\ delInflight[1] = 0
    /\ pc[2] = "idle"

\* C31: once revokeApiToken has returned for a token, its apikeyhash entry
\* is eventually absent and stays absent: when no dashboard operation is
\* running any more, the entry of every token whose revocation returned is
\* absent from KV (so the worker answers 401 for it).
C31_RevokedStaysAbsent ==
    Quiet => \A t \in revokeReturned : kvAuth[t] = NoConfig

\* C32: a createApiTokenForCustomer that threw because KV provisioning
\* failed has left nothing behind: the ApiToken row is deleted and KV holds
\* no apikeyhash entry for the token.
C32_FailedCreateLeavesNothing ==
    \A t \in createFailed : dbTokens[t] = "deleted" /\ kvAuth[t] = NoConfig

\* C33: once every domain change and the syncCustomerAuthToKV that follows
\* it have run to completion without throwing, overlapping or not, the
\* domains stored in KV under customer:<id> and under the apikeyhash key of
\* every active token are the customer's domains in the database.
C33_KvDomainsMatchDb ==
    (Quiet /\ ~syncThrew /\ dbDomains # {}) =>
        /\ kvCustomer = Config(dbDomains)
        /\ \A t \in ActiveTokens : kvAuth[t] = Config(dbDomains)

\* C38: a customer never has more than MAX_ACTIVE_TOKENS active
\* (non-revoked) ApiToken rows, concurrent createApiTokenForCustomer calls
\* included.
C38_AtMostFiveActive == Cardinality(ActiveTokens) <= MAX_ACTIVE_TOKENS

\* C34: after a successful extraction the lease delete takes effect only
\* after the md:<fingerprint> write-back: while the write-back of a request
\* has not settled, the delete that request issued has not settled either,
\* so the marker is not removed while the entry is still unwritten.
C34_DeleteAfterWriteBack ==
    \A r \in Reqs : mdTask[r] = "inflight" => delInflight[r] > 0

\* C35: a request finishing its extraction never removes the marker that
\* another, still extracting request has written: a delete of request r
\* that settles while the stored marker is that of a request q still in
\* scrapeWithTimeout leaves the marker stored.
C35_DeleteOwnMarker ==
    [][\A r \in Reqs : \A q \in Reqs \ {r} :
          (delInflight'[r] < delInflight[r] /\ kvPending = q /\ pc[q] = "scraping")
              => kvPending' = q]_vars

\* C36: every value stored under md:<fingerprint>, by /render,
\* /render/internal, proxy mode or the crawl-status write-back, is
\* non-empty and not HTML by isHTML.
C36_StoredIsMarkdown == kvMd # Absent => ~isHTML(kvMd)

\* C37: GET /_rosetta/crawl/<id> answers 404 to a valid token of any tenant
\* other than the one that started the job, at all times: also before the
\* crawl::<id> record is stored and after it has expired.
C37_OtherTenant404 ==
    (crawlCaller # "-" /\ crawlCaller # crawlOwner) => crawlResp = 404

====
